---- MODULE Spec2Model ----
(***************************************************************************)
(* Discrepancy detection engine of the credit audit platform               *)
(* (runDetectionEngine), in the two variants the audit pipeline ships:     *)
(*   "route" : src/app/api/audit/route.js   (the deployed POST route)      *)
(*   "cli"   : src/unnamed/part_004         (the runFullAudit pipeline)    *)
(*                                                                         *)
(* JavaScript strings are modelled as sequences of one-character strings,  *)
(* normalized date strings "YYYY-MM-DD" as triples <<y, m, d>> and the     *)
(* empty string as the empty sequence.  JavaScript numbers that can be     *)
(* null or NaN are tagged records (Num, NaN, Null).                        *)
(***************************************************************************)
EXTENDS Integers, Sequences, FiniteSets, TLC

VARIABLES rawText, variant, data, today, pc, groups, g, c, q, findings, findingId

vars == <<rawText, variant, data, today, pc, groups, g, c, q, findings, findingId>>

(***************************************************************************)
(* Bounds of the model.                                                    *)
(***************************************************************************)
MaxGroupSize == 3
MaxRepeat == 4
MaxMixed == 4
MaxNamed == 3
MaxCollections == 2
MaxInquiries == 2

(***************************************************************************)
(* JavaScript values.                                                      *)
(***************************************************************************)
Num(n) == [t |-> "num", v |-> n]
NaN == [t |-> "nan", v |-> 0]
Null == [t |-> "null", v |-> 0]

\* JavaScript truthiness of a number-or-null value: null, NaN and 0 are falsy.
Truthy(x) == x.t = "num" /\ x.v # 0

\* x > n for a number-or-null x (NaN > n is false; null > n compares 0 > n).
JsGreater(x, n) ==
    CASE x.t = "num" -> x.v > n
      [] x.t = "null" -> 0 > n
      [] OTHER -> FALSE

Abs(n) == IF n < 0 THEN -n ELSE n

Min(S) == CHOOSE x \in S : \A y \in S : x <= y

Range(s) == {s[i] : i \in 1..Len(s)}

RECURSIVE Flatten(_)
Flatten(ss) == IF ss = <<>> THEN <<>> ELSE Head(ss) \o Flatten(Tail(ss))

\* Sequences over S of a length in lo..hi.
SeqsOf(S, lo, hi) == UNION {[1..n -> S] : n \in lo..hi}

(***************************************************************************)
(* Strings.                                                                *)
(***************************************************************************)
UpperChars == <<"A","B","C","D","E","F","G","H","I","J","K","L","M",
                "N","O","P","Q","R","S","T","U","V","W","X","Y","Z">>
LowerChars == <<"a","b","c","d","e","f","g","h","i","j","k","l","m",
                "n","o","p","q","r","s","t","u","v","w","x","y","z">>
DigitChars == <<"0","1","2","3","4","5","6","7","8","9">>

UpperSet == Range(UpperChars)
LowerSet == Range(LowerChars)
DigitSet == Range(DigitChars)

IsUpper(ch) == ch \in UpperSet
IsLower(ch) == ch \in LowerSet
IsDigit(ch) == ch \in DigitSet
IsSpace(ch) == ch = " "

ToLowerChar(ch) ==
    IF IsUpper(ch) THEN LowerChars[CHOOSE i \in 1..26 : UpperChars[i] = ch] ELSE ch
ToUpperChar(ch) ==
    IF IsLower(ch) THEN UpperChars[CHOOSE i \in 1..26 : LowerChars[i] = ch] ELSE ch

\* String.prototype.toLowerCase / toUpperCase
ToLowerCase(s) == [i \in 1..Len(s) |-> ToLowerChar(s[i])]
ToUpperCase(s) == [i \in 1..Len(s) |-> ToUpperChar(s[i])]

\* s.slice(-n): the last n characters (the whole string when shorter)
SliceLast(s, n) == IF Len(s) <= n THEN s ELSE SubSeq(s, Len(s) - n + 1, Len(s))

\* s.substring(0, n)
Substring0(s, n) == IF Len(s) <= n THEN s ELSE SubSeq(s, 1, n)

\* s.trim() === ''
TrimIsEmpty(s) == \A i \in 1..Len(s) : IsSpace(s[i])

\* Variation of NormalizeStatus: lower case only, other characters kept.
NormalizeStatusKeepOthers(s) == ToLowerCase(s)

\* status.toLowerCase().replace(/[^a-z]/g, '')
NormalizeStatus(s) == SelectSeq(ToLowerCase(s), IsLower)

IsUpperOrDigit(ch) == IsUpper(ch) \/ IsDigit(ch)

NormLen == 10

\* normalizeCreditor: name.toUpperCase().replace(/[^A-Z0-9]/g, '').substring(0, 10)
normalizeCreditor(name) ==
    IF name = <<>> THEN <<>>
    ELSE Substring0(SelectSeq(ToUpperCase(name), IsUpperOrDigit), NormLen)

(***************************************************************************)
(* Dates.  new Date("YYYY-MM-DD") is UTC midnight of that civil day, so    *)
(* a difference of two of them divided by the milliseconds of a day is the *)
(* difference of their day numbers.                                        *)
(***************************************************************************)
\* Days since 1970-01-01 of the civil date y-m-d (proleptic Gregorian).
EpochDay(y, m, d) ==
    LET yy == IF m <= 2 THEN y - 1 ELSE y
        era == yy \div 400
        yoe == yy - era * 400
        mp == IF m > 2 THEN m - 3 ELSE m + 9
        doy == (153 * mp + 2) \div 5 + d - 1
        doe == yoe * 365 + yoe \div 4 - yoe \div 100 + doy
    IN  era * 146097 + doe - 719468

\* new Date(str) for a date-only string, as a day number; NaN (Invalid Date)
\* for a month outside 1..12 or a day outside 1..31.
JsDateDay(ds) ==
    IF Len(ds) = 3 /\ ds[2] \in 1..12 /\ ds[3] \in 1..31
    THEN Num(EpochDay(ds[1], ds[2], ds[3]))
    ELSE NaN

\* Math.abs((new Date(d1) - new Date(d2)) / (1000 * 60 * 60 * 24))
daysDiff(d1, d2) ==
    IF d1 = <<>> \/ d2 = <<>> THEN Null
    ELSE LET a == JsDateDay(d1)
             b == JsDateDay(d2)
         IN  IF a.t = "num" /\ b.t = "num" THEN Num(Abs(a.v - b.v)) ELSE NaN

(***************************************************************************)
(* Findings.                                                               *)
(***************************************************************************)
Bureaus == {"TU", "EX", "EQ"}

TradelineTypes ==
    {"DATE_MISMATCH_OPEN", "DATE_MISMATCH_DLA", "DATE_MISMATCH_PAYMENT",
     "STATUS_MISMATCH", "LIMIT_MISMATCH"}
CollectionTypes == {"MISSING_OC", "MISSING_DOFD"}
InquiryTypes == {"INQUIRY_EXPIRED"}

\* One findings.push({...}); the id is assigned when the finding is appended.
\* evidence holds the literal values the evidence string embeds.
Finding(type, item, bureaus, severity, impact, claim, entries, days) ==
    [id |-> 0, type |-> type, item |-> item, bureausAffected |-> bureaus,
     severity |-> severity, impactScore |-> impact, claimIndicator |-> claim,
     evidence |-> [entries |-> entries, days |-> days]]

\* id: findingId++ over the findings pushed in one step
Numbered(fs, firstId) == [i \in 1..Len(fs) |-> [fs[i] EXCEPT !.id = firstId + i - 1]]

\* (t.accountNumberPartial || '').slice(-4)
Last4(rec) == SliceLast(rec.accountNumberPartial, 4)

\* creditorName + ' (...' + last4 + ')'
ItemName(name, last4) == name \o <<" ", "(", ".", ".", ".">> \o last4 \o <<")">>

\* normalizeCreditor(t.creditorName) + '_' + (t.accountNumberPartial || '').slice(-4)
GroupKey(t) == normalizeCreditor(t.creditorName) \o <<"_">> \o Last4(t)

\* Variation of AddToGroups: a new group is put in front of the others.
AddToGroupsInFront(gs, t) ==
    LET key == GroupKey(t) IN
    IF \E i \in 1..Len(gs) : gs[i].key = key
    THEN LET k == CHOOSE j \in 1..Len(gs) : gs[j].key = key
         IN  [gs EXCEPT ![k].items = Append(@, t)]
    ELSE <<[key |-> key, items |-> <<t>>]>> \o gs

\* Variation of AddToGroups: a record joins the group of its creditor name,
\* whatever its account number.
AddToGroupsByName(gs, t) ==
    LET key == GroupKey(t)
        SameName(i) == normalizeCreditor(gs[i].items[1].creditorName)
                           = normalizeCreditor(t.creditorName) IN
    IF \E i \in 1..Len(gs) : SameName(i)
    THEN LET k == CHOOSE j \in 1..Len(gs) : SameName(j)
         IN  [gs EXCEPT ![k].items = Append(@, t)]
    ELSE Append(gs, [key |-> key, items |-> <<t>>])

\* Variation of AddToGroups: every record joins the first group, whatever its
\* key.
AddToFirstGroup(gs, t) ==
    IF gs # <<>>
    THEN [gs EXCEPT ![1].items = Append(@, t)]
    ELSE <<[key |-> GroupKey(t), items |-> <<t>>]>>

\* if (!groups[key]) groups[key] = []; groups[key].push(t)
\* The object's own keys are kept in insertion order: a key always holds '_',
\* so it is never an integer-like key that Object.keys would move to the front.
AddToGroups(gs, t) ==
    LET key == GroupKey(t) IN
    IF \E i \in 1..Len(gs) : gs[i].key = key
    THEN LET k == CHOOSE j \in 1..Len(gs) : gs[j].key = key
         IN  [gs EXCEPT ![k].items = Append(@, t)]
    ELSE Append(gs, [key |-> key, items |-> <<t>>])

RECURSIVE GroupAll(_, _)
GroupAll(gs, ts) == IF ts = <<>> THEN gs ELSE GroupAll(AddToGroups(gs, Head(ts)), Tail(ts))

(***************************************************************************)
(* Tradeline rules, applied to the records (items) of one group.           *)
(***************************************************************************)
DateThreshold == 30

\* items.filter(i => i[field]).map(i => ({ bureau: i.bureau, date: i[field] }))
CollectDates(items, field) ==
    LET Has(i) == i[field] # <<>>
        sel == SelectSeq(items, Has)
    IN  [k \in 1..Len(sel) |-> [bureau |-> sel[k].bureau, date |-> sel[k][field]]]

\* Variation of Qualifies: the threshold compared with >= instead of >.
QualifiesFromThreshold(v, diff) ==
    IF v = "route" THEN Truthy(diff) /\ JsGreater(diff, DateThreshold - 1)
    ELSE diff.t # "null" /\ JsGreater(diff, DateThreshold - 1)

\* The condition of the if around findings.push in the pair loops:
\* route.js tests (diff && diff > 30), the pipeline (diff !== null && diff > 30).
Qualifies(v, diff) ==
    IF v = "route" THEN Truthy(diff) /\ JsGreater(diff, DateThreshold)
    ELSE diff.t # "null" /\ JsGreater(diff, DateThreshold)

\* Inner loop over b = a+1 .. for one a: the b at which the finding is pushed
\* and the loop left by break (the empty set when no b qualifies).
InnerHits(v, vals, a) ==
    {b \in (a + 1)..Len(vals) : Qualifies(v, daysDiff(vals[a].date, vals[b].date))}

\* The pairs <<a, b>> at which the two nested loops push a finding, in push
\* order.  The break leaves the inner loop only; the outer loop goes on with
\* a + 1.
RECURSIVE ScanPairs(_, _, _)
ScanPairs(v, vals, a) ==
    IF a > Len(vals) THEN <<>>
    ELSE LET hits == InnerHits(v, vals, a) IN
         (IF hits = {} THEN <<>> ELSE << <<a, Min(hits)>> >>) \o ScanPairs(v, vals, a + 1)

\* One of the date rules (open date, last activity, last payment).
DateRule(v, items, field, type, severity, impact) ==
    LET vals == CollectDates(items, field)
        item == ItemName(items[1].creditorName, Last4(items[1]))
        pairs == IF Len(vals) >= 2 THEN ScanPairs(v, vals, 1) ELSE <<>>
    IN  [k \in 1..Len(pairs) |->
            LET a == vals[pairs[k][1]]
                b == vals[pairs[k][2]]
            IN  Finding(type, item, <<a.bureau, b.bureau>>, severity, impact, FALSE,
                        << <<a.bureau, a.date>>, <<b.bureau, b.date>> >>,
                        daysDiff(a.date, b.date).v)]

\* Status rule.
StatusRule(items) ==
    LET Has(i) == i.status # <<>>
        statuses == SelectSeq(items, Has)
        normalized == {NormalizeStatus(statuses[k].status) : k \in 1..Len(statuses)}
        item == ItemName(items[1].creditorName, Last4(items[1]))
    IN  IF Len(statuses) >= 2 /\ Cardinality(normalized) > 1
        THEN << Finding("STATUS_MISMATCH", item,
                        [k \in 1..Len(statuses) |-> statuses[k].bureau],
                        "high", 8, FALSE,
                        [k \in 1..Len(statuses) |->
                            <<statuses[k].bureau, statuses[k].status>>], 0) >>
        ELSE <<>>

\* Variation of LimitRule: a null limit is compared like a value.
LimitRuleNullCounts(v, items) ==
    LET limits == items
        hasLimit == \E k \in 1..Len(limits) : JsGreater(limits[k].creditLimit, 0)
        uniqueLimits == {limits[k].creditLimit : k \in 1..Len(limits)}
        item == ItemName(items[1].creditorName, Last4(items[1]))
    IN  IF Len(limits) >= 2 /\ hasLimit /\ Cardinality(uniqueLimits) > 1
        THEN << Finding("LIMIT_MISMATCH", item,
                        [k \in 1..Len(limits) |-> limits[k].bureau],
                        "low", 4, FALSE,
                        [k \in 1..Len(limits) |->
                            <<limits[k].bureau, limits[k].creditLimit>>], 0) >>
        ELSE <<>>

\* Credit limit rule.  route.js counts the distinct limit values
\* (uniqueLimits.length > 1), the pipeline looks for two entries at different
\* positions with different limits (hasMismatch).
LimitRule(v, items) ==
    LET Has(i) == i.creditLimit # Null
        limits == SelectSeq(items, Has)
        hasLimit == \E k \in 1..Len(limits) : JsGreater(limits[k].creditLimit, 0)
        uniqueLimits == {limits[k].creditLimit : k \in 1..Len(limits)}
        hasMismatch == \E i, j \in 1..Len(limits) :
                          i # j /\ limits[i].creditLimit # limits[j].creditLimit
        differ == IF v = "route" THEN Cardinality(uniqueLimits) > 1 ELSE hasMismatch
        item == ItemName(items[1].creditorName, Last4(items[1]))
    IN  IF Len(limits) >= 2 /\ hasLimit /\ differ
        THEN << Finding("LIMIT_MISMATCH", item,
                        [k \in 1..Len(limits) |-> limits[k].bureau],
                        "low", 4, FALSE,
                        [k \in 1..Len(limits) |->
                            <<limits[k].bureau, limits[k].creditLimit>>], 0) >>
        ELSE <<>>

\* The body of the loop over the groups: nothing for a group of fewer than two
\* records, else the rules in their fixed order (the pipeline has a third
\* date rule, on lastPaymentDate).
GroupFindings(v, items) ==
    IF Len(items) < 2 THEN <<>>
    ELSE DateRule(v, items, "openDate", "DATE_MISMATCH_OPEN", "high", 7)
         \o DateRule(v, items, "dateOfLastActivity", "DATE_MISMATCH_DLA", "high", 7)
         \o (IF v = "cli"
              THEN DateRule(v, items, "lastPaymentDate", "DATE_MISMATCH_PAYMENT", "medium", 5)
              ELSE <<>>)
         \o StatusRule(items)
         \o LimitRule(v, items)

(***************************************************************************)
(* Collection rules, applied to one collection record.                     *)
(***************************************************************************)
\* (col.collectorName || col.creditorName)
CollectorOrCreditor(col) ==
    IF col.collectorName # <<>> THEN col.collectorName ELSE col.creditorName

\* Variation of MissingOC: the empty string only, no trim().
MissingOCNoTrim(col) == col.originalCreditor = <<>>

\* !col.originalCreditor || col.originalCreditor.trim() === ''
MissingOC(col) == col.originalCreditor = <<>> \/ TrimIsEmpty(col.originalCreditor)

\* !col.dateOfFirstDelinquency || col.dateOfFirstDelinquency.trim() === ''
\* (a normalized date string holds digits, so its trim() is never empty)
MissingDOFD(col) == col.dateOfFirstDelinquency = <<>>

\* Variation of CollectionFindings: the bureau read from a field the records
\* do not have (bureauCode), so that the list holds undefined.
CollectionFindingsNoBureau(col) ==
    LET item == ItemName(CollectorOrCreditor(col), Last4(col)) IN
    (IF MissingOC(col)
     THEN << Finding("MISSING_OC", item, <<"undefined">>, "medium", 6, TRUE,
                     << <<col.bureau, CollectorOrCreditor(col)>> >>, 0) >>
     ELSE <<>>)
    \o
    (IF MissingDOFD(col)
     THEN << Finding("MISSING_DOFD", item, <<"undefined">>, "high", 8, TRUE,
                     << <<col.bureau, CollectorOrCreditor(col)>> >>, 0) >>
     ELSE <<>>)

CollectionFindings(col) ==
    LET item == ItemName(CollectorOrCreditor(col), Last4(col)) IN
    (IF MissingOC(col)
     THEN << Finding("MISSING_OC", item, <<col.bureau>>, "medium", 6, TRUE,
                     << <<col.bureau, CollectorOrCreditor(col)>> >>, 0) >>
     ELSE <<>>)
    \o
    (IF MissingDOFD(col)
     THEN << Finding("MISSING_DOFD", item, <<col.bureau>>, "high", 8, TRUE,
                     << <<col.bureau, CollectorOrCreditor(col)>> >>, 0) >>
     ELSE <<>>)

(***************************************************************************)
(* Inquiry rule (pipeline only).  Time is counted in seconds since the     *)
(* epoch; today is the clock read by new Date().                           *)
(***************************************************************************)
SecPerDay == 86400
InquiryMaxAgeDays == 730

\* Variation of InquiryTooOld: an age of 730 days or more.
InquiryTooOldFromLimit(now, inq) ==
    LET day == JsDateDay(inq.inquiryDate) IN
    day.t = "num" /\ now - day.v * SecPerDay >= InquiryMaxAgeDays * SecPerDay

\* ageInDays = (today - new Date(inq.inquiryDate)) / (1000*60*60*24) > 730
\* (both sides multiplied by the length of a day; an Invalid Date gives NaN,
\* and NaN > 730 is false)
InquiryTooOld(now, inq) ==
    LET day == JsDateDay(inq.inquiryDate) IN
    day.t = "num" /\ now - day.v * SecPerDay > InquiryMaxAgeDays * SecPerDay

InquiryFindings(now, inq) ==
    IF inq.inquiryDate # <<>> /\ inq.inquiryType = "hard" /\ InquiryTooOld(now, inq)
    THEN << Finding("INQUIRY_EXPIRED", inq.creditorName, <<inq.bureau>>, "low", 3, FALSE,
                    << <<inq.bureau, inq.inquiryDate>> >>, 0) >>
    ELSE <<>>

(***************************************************************************)
(* Input bundles the detector is run on.                                   *)
(***************************************************************************)
Variants == {"route", "cli"}

Chase == <<"C", "h", "a", "s", "e">>
ChaseDot == <<"C", "H", "A", "S", "E", ".">>
Citi == <<"C", "i", "t", "i">>
AmexA == <<"A", "m", "e", "r", "i", "c", "a", "n", "E", "x", "A">>
AmexB == <<"A", "m", "e", "r", "i", "c", "a", "n", "E", "x", "B">>
Midland == <<"M", "I", "D", "L", "A", "N", "D">>
Acme == <<"A", "c", "m", "e">>
Blanks == <<" ", " ">>

Acct1234 == <<"1", "2", "3", "4">>
Acct991234 == <<"9", "9", "1", "2", "3", "4">>
Acct5678 == <<"5", "6", "7", "8">>

Open == <<"O", "p", "e", "n">>
OpenUpper == <<"O", "P", "E", "N", " ">>
Closed == <<"C", "l", "o", "s", "e", "d">>
Digits30 == <<"3", "0">>

D0 == <<2020, 1, 1>>
D30 == <<2020, 1, 31>>
D31 == <<2020, 2, 1>>
D74 == <<2020, 3, 15>>
DBad == <<2020, 13, 45>>

BureauAt(k) == <<"TU", "EX", "EQ">>[((k - 1) % 3) + 1]

Tradeline(name, acct, bureau, status, open, dla, pay, limit) ==
    [creditorName |-> name, accountNumberPartial |-> acct, bureau |-> bureau,
     status |-> status, openDate |-> open, dateOfLastActivity |-> dla,
     lastPaymentDate |-> pay, creditLimit |-> limit]

Collection(name, acct, bureau, oc, dofd) ==
    [creditorName |-> name, collectorName |-> name, accountNumberPartial |-> acct,
     bureau |-> bureau, originalCreditor |-> oc, dateOfFirstDelinquency |-> dofd]

Inquiry(name, date, bureau, type) ==
    [creditorName |-> name, inquiryDate |-> date, bureau |-> bureau, inquiryType |-> type]

\* The clock: midnight and noon (UTC) of 2026-11-02.
Midnight == EpochDay(2026, 11, 2) * SecPerDay
Times == {Midnight, Midnight + SecPerDay \div 2}

DOld == <<2024, 11, 1>>
D730 == <<2024, 11, 2>>

DefaultTradelines ==
    << Tradeline(Chase, Acct1234, "TU", Open, D0, <<>>, <<>>, Null),
       Tradeline(Chase, Acct1234, "EX", Open, D74, <<>>, <<>>, Null) >>
DefaultCollections == << Collection(Midland, Acct5678, "EQ", <<>>, <<>>) >>
DefaultInquiries == << Inquiry(Citi, DOld, "EX", "hard") >>

\* An input bundle { tradelines, collections, inquiries }; hasInquiries is
\* false when the bundle carries no inquiries property (undefined).
Bundle(ts, cs, hasInq, is) ==
    [tradelines |-> ts, collections |-> cs, hasInquiries |-> hasInq, inquiries |-> is]

\* One group of 2..MaxGroupSize records, bureaus TU, EX, EQ, TU, ... in turn,
\* that differ in one field only.
OpenDateLists ==
    {[k \in DOMAIN f |-> Tradeline(Chase, Acct1234, BureauAt(k), Open, f[k], <<>>, <<>>, Null)] :
        f \in SeqsOf({<<>>, D0, D30, D31, D74, DBad}, 2, MaxGroupSize)}
ActivityDateLists ==
    {[k \in DOMAIN f |-> Tradeline(Chase, Acct1234, BureauAt(k), Open, <<>>, f[k], <<>>, Null)] :
        f \in SeqsOf({<<>>, D0, D31, D74}, 2, MaxGroupSize)}
PaymentDateLists ==
    {[k \in DOMAIN f |-> Tradeline(Chase, Acct1234, BureauAt(k), Open, <<>>, <<>>, f[k], Null)] :
        f \in SeqsOf({<<>>, D0, D74}, 2, MaxGroupSize)}
StatusLists ==
    {[k \in DOMAIN f |-> Tradeline(Chase, Acct1234, BureauAt(k), f[k], <<>>, <<>>, <<>>, Null)] :
        f \in SeqsOf({<<>>, Open, OpenUpper, Closed, Digits30}, 2, MaxGroupSize)}
LimitLists ==
    {[k \in DOMAIN f |-> Tradeline(Chase, Acct1234, BureauAt(k), Open, <<>>, <<>>, <<>>, f[k])] :
        f \in SeqsOf({Null, Num(0), Num(3000), Num(5000)}, 2, MaxGroupSize)}

\* One group of up to MaxRepeat records, so that a bureau reports more than
\* once, which differ in status and credit limit.
RepeatLists ==
    {[k \in DOMAIN f |->
        Tradeline(Chase, Acct1234, BureauAt(k), f[k][1], <<>>, <<>>, <<>>, f[k][2])] :
        f \in SeqsOf({<<Open, Num(5000)>>, <<Closed, Num(5000)>>,
                      <<Open, Num(3000)>>, <<<<>>, Null>>}, 2, MaxRepeat)}

\* Up to MaxMixed records of two creditors, in any order, each with one of
\* two value profiles: several groups, several rules at once.
MixedRecords ==
    {Tradeline(n, Acct1234, "TU", p[1], p[2], p[3], p[4], p[5]) :
        n \in {Chase, Citi},
        p \in {<<Open, D0, D0, D0, Num(5000)>>, <<Closed, D74, D31, D74, Num(3000)>>}}
MixedLists ==
    {[k \in DOMAIN f |-> [f[k] EXCEPT !.bureau = BureauAt(k)]] :
        f \in SeqsOf(MixedRecords, 0, MaxMixed)}

\* Creditor names and account numbers that normalize to the same or to
\* different group keys.
NamedRecords ==
    {Tradeline(p[1], p[2], "TU", Open, D0, <<>>, <<>>, Null) :
        p \in {<<Chase, Acct1234>>, <<ChaseDot, Acct991234>>, <<Chase, Acct5678>>,
               <<AmexA, Acct1234>>, <<AmexB, Acct1234>>}}
NamedLists ==
    {[k \in DOMAIN f |-> [f[k] EXCEPT !.bureau = BureauAt(k),
                                      !.openDate = IF k % 2 = 0 THEN D74 ELSE D0,
                                      !.status = IF k = 1 THEN Closed ELSE Open]] :
        f \in SeqsOf(NamedRecords, 0, MaxNamed)}

TradelineLists ==
    OpenDateLists \cup ActivityDateLists \cup PaymentDateLists \cup StatusLists
        \cup LimitLists \cup RepeatLists \cup MixedLists \cup NamedLists

CollectionRecords ==
    {Collection(Midland, Acct5678, "TU", oc, dofd) :
        oc \in {<<>>, Blanks, Acme}, dofd \in {<<>>, D0}}
CollectionLists ==
    {[k \in DOMAIN f |-> [f[k] EXCEPT !.bureau = BureauAt(k)]] :
        f \in SeqsOf(CollectionRecords, 0, MaxCollections)}

InquiryRecords ==
    {Inquiry(Citi, d, "EX", t) : d \in {<<>>, DOld, D730, DBad}, t \in {"hard", "soft"}}
InquiryLists ==
    {[k \in DOMAIN f |-> [f[k] EXCEPT !.bureau = BureauAt(k)]] :
        f \in SeqsOf(InquiryRecords, 0, MaxInquiries)}

\* The runs: each varies one part of the bundle and keeps the others fixed.
Scenarios ==
    {[data |-> Bundle(ts, DefaultCollections, TRUE, DefaultInquiries), today |-> Midnight] :
        ts \in TradelineLists}
    \cup
    {[data |-> Bundle(DefaultTradelines, cs, TRUE, DefaultInquiries), today |-> Midnight] :
        cs \in CollectionLists}
    \cup
    {[data |-> Bundle(DefaultTradelines, DefaultCollections, TRUE, is), today |-> t] :
        is \in InquiryLists, t \in Times}
    \cup
    {[data |-> Bundle(ts, cs, FALSE, <<>>), today |-> Midnight] :
        ts \in {<<>>, DefaultTradelines}, cs \in {<<>>, DefaultCollections}}

(***************************************************************************)
(* runDetectionEngine as a state machine.                                  *)
(***************************************************************************)
\* The phase that follows the loop over the collections: route.js returns,
\* the pipeline goes on to the inquiries.
AfterCollections(v) == IF v = "route" THEN "return" ELSE "inquiries"

AfterTradelines(v, d) ==
    IF Len(d.collections) > 0 THEN "collections" ELSE AfterCollections(v)

AfterGrouping(v, d, gs) ==
    IF Len(gs) > 0 THEN "tradelines" ELSE AfterTradelines(v, d)

Init ==
    /\ rawText = <<>>
    /\ variant \in Variants
    /\ \E s \in Scenarios : data = s.data /\ today = s.today
    /\ pc = "group"
    /\ groups = <<>>
    /\ g = 1
    /\ c = 1
    /\ q = 1
    /\ findings = <<>>
    /\ findingId = 1

\* Group tradelines by account (the whole loop over the tradelines).
GroupTradelines ==
    /\ pc = "group"
    /\ groups' = GroupAll(<<>>, data.tradelines)
    /\ pc' = AfterGrouping(variant, data, groups')
    /\ UNCHANGED <<rawText, variant, data, today, g, c, q, findings, findingId>>

\* One iteration of the loop over the groups.
AnalyzeGroup ==
    /\ pc = "tradelines"
    /\ g <= Len(groups)
    /\ LET new == GroupFindings(variant, groups[g].items) IN
        /\ findings' = findings \o Numbered(new, findingId)
        /\ findingId' = findingId + Len(new)
    /\ g' = g + 1
    /\ pc' = IF g = Len(groups) THEN AfterTradelines(variant, data) ELSE pc
    /\ UNCHANGED <<rawText, variant, data, today, groups, c, q>>

\* One iteration of the loop over the collections.
AnalyzeCollection ==
    /\ pc = "collections"
    /\ c <= Len(data.collections)
    /\ LET new == CollectionFindings(data.collections[c]) IN
        /\ findings' = findings \o Numbered(new, findingId)
        /\ findingId' = findingId + Len(new)
    /\ c' = c + 1
    /\ pc' = IF c = Len(data.collections) THEN AfterCollections(variant) ELSE pc
    /\ UNCHANGED <<rawText, variant, data, today, groups, g, q>>

\* inquiries.forEach(...) on a bundle without inquiries: TypeError.
InquiriesUndefined ==
    /\ pc = "inquiries"
    /\ ~data.hasInquiries
    /\ pc' = "raised"
    /\ UNCHANGED <<rawText, variant, data, today, groups, g, c, q, findings, findingId>>

\* const today = new Date(); inquiries.forEach(...) entered.
StartInquiries ==
    /\ pc = "inquiries"
    /\ data.hasInquiries
    /\ pc' = IF Len(data.inquiries) > 0 THEN "inquiry" ELSE "return"
    /\ UNCHANGED <<rawText, variant, data, today, groups, g, c, q, findings, findingId>>

\* One iteration of the loop over the inquiries.
AnalyzeInquiry ==
    /\ pc = "inquiry"
    /\ q <= Len(data.inquiries)
    /\ LET new == InquiryFindings(today, data.inquiries[q]) IN
        /\ findings' = findings \o Numbered(new, findingId)
        /\ findingId' = findingId + Len(new)
    /\ q' = q + 1
    /\ pc' = IF q = Len(data.inquiries) THEN "return" ELSE pc
    /\ UNCHANGED <<rawText, variant, data, today, groups, g, c>>

\* return findings
Return ==
    /\ pc = "return"
    /\ pc' = "done"
    /\ UNCHANGED <<rawText, variant, data, today, groups, g, c, q, findings, findingId>>

Next ==
    \/ GroupTradelines
    \/ AnalyzeGroup
    \/ AnalyzeCollection
    \/ InquiriesUndefined
    \/ StartInquiries
    \/ AnalyzeInquiry
    \/ Return

Spec == Init /\ [][Next]_vars

(***************************************************************************)
(* Vocabulary of the properties: the groups of the input, the findings of  *)
(* a group, and calendar arithmetic done by counting days.                 *)
(***************************************************************************)
Returned == pc = "done"

IsLeapYear(y) == (y % 4 = 0 /\ y % 100 # 0) \/ y % 400 = 0

MonthLengths(y) ==
    <<31, IF IsLeapYear(y) THEN 29 ELSE 28, 31, 30, 31, 30, 31, 31, 30, 31, 30, 31>>

IsCalendarDate(d) ==
    Len(d) = 3 /\ d[2] \in 1..12 /\ d[3] \in 1..MonthLengths(d[1])[d[2]]

RECURSIVE DaysOfMonthsBefore(_, _)
DaysOfMonthsBefore(y, m) ==
    IF m = 1 THEN 0 ELSE MonthLengths(y)[m - 1] + DaysOfMonthsBefore(y, m - 1)

\* Days from 1970-01-01 to the calendar date d.
CalendarDay(d) ==
    365 * (d[1] - 1970) + Cardinality({y \in 1970..(d[1] - 1) : IsLeapYear(y)})
        + DaysOfMonthsBefore(d[1], d[2]) + d[3] - 1

CalendarDiff(d1, d2) == Abs(CalendarDay(d1) - CalendarDay(d2))

InputKeys == {GroupKey(data.tradelines[k]) : k \in 1..Len(data.tradelines)}

Members(key) ==
    LET In(t) == GroupKey(t) = key IN SelectSeq(data.tradelines, In)

GroupItem(key) == ItemName(Members(key)[1].creditorName, Last4(Members(key)[1]))

FindingsFor(key, type) ==
    LET Is(f) == f.type = type /\ f.item = GroupItem(key) IN SelectSeq(findings, Is)

Reporting(items, field) ==
    LET Has(i) == i[field] # <<>> IN SelectSeq(items, Has)

\* A status reduced to its letters, in lower case.
LettersLowered(s) ==
    LET low == [i \in 1..Len(s) |->
                  IF \E k \in 1..26 : UpperChars[k] = s[i]
                  THEN LowerChars[CHOOSE k \in 1..26 : UpperChars[k] = s[i]]
                  ELSE s[i]]
        IsLetter(ch) == \E k \in 1..26 : LowerChars[k] = ch
    IN  SelectSeq(low, IsLetter)

\* The pairs of positions a < b of reported dates more than 30 days apart.
FarPairs(rep, field) ==
    {p \in (1..Len(rep)) \X (1..Len(rep)) :
        /\ p[1] < p[2]
        /\ IsCalendarDate(rep[p[1]][field])
        /\ IsCalendarDate(rep[p[2]][field])
        /\ CalendarDiff(rep[p[1]][field], rep[p[2]][field]) > 30}

\* The first pair of a set of pairs in the scan order (0,1),(0,2),(1,2),...
FirstPair(Q) ==
    CHOOSE p \in Q : \A r \in Q : p[1] < r[1] \/ (p[1] = r[1] /\ p[2] <= r[2])

DateField(type) ==
    IF type = "DATE_MISMATCH_OPEN" THEN "openDate" ELSE "dateOfLastActivity"

(***************************************************************************)
(* C1.  Each date rule (open date, date of last activity) emits at most    *)
(* one finding of its type per tradeline group.                            *)
(***************************************************************************)
C1_AtMostOnePerDateRule ==
    Returned =>
        \A key \in InputKeys : \A type \in {"DATE_MISMATCH_OPEN", "DATE_MISMATCH_DLA"} :
            Len(FindingsFor(key, type)) <= 1

(***************************************************************************)
(* C2.  For a group of two records that both report an open date, a        *)
(* DATE_MISMATCH_OPEN finding is emitted iff the two dates are more than   *)
(* 30 calendar days apart (30 days: none, 31 days: one); a date that is no  *)
(* calendar date is apart from nothing.                                    *)
(***************************************************************************)
C2_OpenDateThreshold ==
    Returned =>
        \A key \in InputKeys :
            LET m == Members(key) IN
            (Len(m) = 2 /\ m[1].openDate # <<>> /\ m[2].openDate # <<>>)
                => Len(FindingsFor(key, "DATE_MISMATCH_OPEN"))
                       = (IF /\ IsCalendarDate(m[1].openDate)
                             /\ IsCalendarDate(m[2].openDate)
                             /\ CalendarDiff(m[1].openDate, m[2].openDate) > 30
                          THEN 1 ELSE 0)

C2_Witness ==
    /\ Returned
    /\ \E key \in InputKeys :
           LET m == Members(key) IN
           /\ Len(m) = 2
           /\ IsCalendarDate(m[1].openDate)
           /\ IsCalendarDate(m[2].openDate)
           /\ CalendarDiff(m[1].openDate, m[2].openDate) = 31
           /\ Len(FindingsFor(key, "DATE_MISMATCH_OPEN")) = 1

(***************************************************************************)
(* C3.  A group gets exactly one STATUS_MISMATCH finding, of severity      *)
(* high, when the reported statuses, reduced to lower-case letters, hold   *)
(* more than one distinct value, and none otherwise; the finding lists     *)
(* every bureau that reported a status, in record order.                   *)
(***************************************************************************)
C3_StatusMismatch ==
    Returned =>
        \A key \in InputKeys :
            LET rep == Reporting(Members(key), "status")
                distinct == {LettersLowered(rep[k].status) : k \in 1..Len(rep)}
                fs == FindingsFor(key, "STATUS_MISMATCH")
            IN  IF Cardinality(distinct) > 1
                THEN /\ Len(fs) = 1
                     /\ fs[1].severity = "high"
                     /\ fs[1].bureausAffected = [k \in 1..Len(rep) |-> rep[k].bureau]
                ELSE Len(fs) = 0

C3_Witness ==
    /\ Returned
    /\ \E key \in InputKeys :
           LET rep == Reporting(Members(key), "status")
               fs == FindingsFor(key, "STATUS_MISMATCH")
           IN  /\ Len(rep) = 3
               /\ rep[1].status # rep[2].status
               /\ LettersLowered(rep[1].status) = LettersLowered(rep[2].status)
               /\ LettersLowered(rep[3].status) # LettersLowered(rep[1].status)
               /\ Len(fs) = 1
               /\ Len(fs[1].bureausAffected) = 3

(***************************************************************************)
(* C4.  A group gets exactly one LIMIT_MISMATCH finding, of severity low,  *)
(* iff among its non-null credit limits one is > 0 and there is more than  *)
(* one distinct value; a null limit takes no part in the comparison.       *)
(***************************************************************************)
C4_LimitMismatch ==
    Returned =>
        \A key \in InputKeys :
            LET m == Members(key)
                lim == {m[k].creditLimit.v : k \in {j \in 1..Len(m) : m[j].creditLimit.t = "num"}}
                fs == FindingsFor(key, "LIMIT_MISMATCH")
            IN  IF (\E x \in lim : x > 0) /\ Cardinality(lim) > 1
                THEN Len(fs) = 1 /\ fs[1].severity = "low"
                ELSE Len(fs) = 0

C4_Witness ==
    /\ Returned
    /\ \E key \in InputKeys :
           LET m == Members(key) IN
           /\ Len(m) = 2
           /\ m[1].creditLimit = Num(0)
           /\ m[2].creditLimit = Num(5000)
           /\ Len(FindingsFor(key, "LIMIT_MISMATCH")) = 1

(***************************************************************************)
(* C5.  Each collection record yields a MISSING_OC finding iff its         *)
(* originalCreditor is empty or blank, then a MISSING_DOFD finding iff its *)
(* dateOfFirstDelinquency is empty, each with claimIndicator = true and    *)
(* bureausAffected = [the record's bureau].                                *)
(***************************************************************************)
IsBlank(str) == \A i \in 1..Len(str) : str[i] = " "

ExpectedOfCollection(col) ==
    (IF IsBlank(col.originalCreditor)
     THEN << <<"MISSING_OC", <<col.bureau>>, TRUE>> >> ELSE <<>>)
    \o
    (IF col.dateOfFirstDelinquency = <<>>
     THEN << <<"MISSING_DOFD", <<col.bureau>>, TRUE>> >> ELSE <<>>)

CollectionPart ==
    LET Is(f) == f.type \in CollectionTypes IN SelectSeq(findings, Is)

C6_FirstQualifyingPair ==
    Returned =>
        \A i \in 1..Len(findings) :
            findings[i].type \in {"DATE_MISMATCH_OPEN", "DATE_MISMATCH_DLA"} =>
                \E key \in InputKeys :
                    LET field == DateField(findings[i].type)
                        rep == Reporting(Members(key), field)
                        far == FarPairs(rep, field)
                    IN  /\ GroupItem(key) = findings[i].item
                        /\ far # {}
                        /\ findings[i].bureausAffected
                               = <<rep[FirstPair(far)[1]].bureau, rep[FirstPair(far)[2]].bureau>>
                        /\ findings[i].evidence.days
                               = CalendarDiff(rep[FirstPair(far)[1]][field],
                                              rep[FirstPair(far)[2]][field])

(***************************************************************************)
(* C7.  In the returned list the tradeline findings come first, then the   *)
(* collection findings, then the inquiry findings; tradeline findings are  *)
(* ordered by the position of their group's first record in the input and, *)
(* inside a group, by the fixed rule order; collection findings follow the *)
(* input order of the collection records.                                  *)
(***************************************************************************)
PhaseRank(type) ==
    IF type \in TradelineTypes THEN 1 ELSE IF type \in CollectionTypes THEN 2 ELSE 3

RuleRank(type) ==
    CASE type = "DATE_MISMATCH_OPEN" -> 1
      [] type = "DATE_MISMATCH_DLA" -> 2
      [] type = "DATE_MISMATCH_PAYMENT" -> 3
      [] type = "STATUS_MISMATCH" -> 4
      [] type = "LIMIT_MISMATCH" -> 5
      [] OTHER -> 6

\* Position in the input of the first record of the group a finding is about.
FirstRecordOf(f) ==
    Min({k \in 1..Len(data.tradelines) :
            GroupItem(GroupKey(data.tradelines[k])) = f.item} \cup {Len(data.tradelines) + 1})

\* The bureaus of the collection records in input order, each as often as
\* the record has findings to give.
CollectionBureausInOrder ==
    Flatten([k \in 1..Len(data.collections) |->
                [j \in 1..Len(ExpectedOfCollection(data.collections[k])) |->
                    data.collections[k].bureau]])

\* FirstRecordOf for each tradeline finding of the list (0 for the others,
\* which is never read).
FirstRecords ==
    [i \in 1..Len(findings) |->
        IF findings[i].type \in TradelineTypes THEN FirstRecordOf(findings[i]) ELSE 0]

C7_FindingOrder ==
    Returned =>
        /\ \A first \in {FirstRecords} : \A i, j \in 1..Len(findings) :
               i < j =>
                 /\ PhaseRank(findings[i].type) <= PhaseRank(findings[j].type)
                 /\ (findings[i].type \in TradelineTypes /\ findings[j].type \in TradelineTypes)
                       => /\ first[i] <= first[j]
                          /\ findings[i].item = findings[j].item
                                => RuleRank(findings[i].type) <= RuleRank(findings[j].type)
        /\ [k \in 1..Len(CollectionPart) |-> CollectionPart[k].bureausAffected[1]]
               = CollectionBureausInOrder

C7_Witness ==
    /\ Returned
    /\ Len(data.tradelines) = 4
    /\ GroupKey(data.tradelines[1]) = GroupKey(data.tradelines[3])
    /\ GroupKey(data.tradelines[2]) = GroupKey(data.tradelines[4])
    /\ GroupKey(data.tradelines[1]) # GroupKey(data.tradelines[2])
    /\ \A key \in InputKeys :
           /\ Len(FindingsFor(key, "DATE_MISMATCH_OPEN")) = 1
           /\ Len(FindingsFor(key, "LIMIT_MISMATCH")) = 1
    /\ \E i \in 1..Len(findings) : findings[i].type \in CollectionTypes
    /\ \E i \in 1..Len(findings) : findings[i].type \in InquiryTypes

(***************************************************************************)
(* C8.  With every input record's bureau in {TU, EX, EQ}, every finding's  *)
(* bureausAffected is non-empty and holds codes of {TU, EX, EQ} only.      *)
(***************************************************************************)
InputBureausKnown ==
    /\ \A k \in 1..Len(data.tradelines) : data.tradelines[k].bureau \in Bureaus
    /\ \A k \in 1..Len(data.collections) : data.collections[k].bureau \in Bureaus
    /\ \A k \in 1..Len(data.inquiries) : data.inquiries[k].bureau \in Bureaus

C8_BureausAffectedKnown ==
    InputBureausKnown =>
        \A i \in 1..Len(findings) :
            /\ Len(findings[i].bureausAffected) >= 1
            /\ Range(findings[i].bureausAffected) \subseteq Bureaus

C8_Witness ==
    /\ Returned
    /\ InputBureausKnown
    /\ \E i \in 1..Len(findings) : findings[i].type \in TradelineTypes
    /\ \E i \in 1..Len(findings) : findings[i].type \in CollectionTypes
    /\ \E i \in 1..Len(findings) : findings[i].type \in InquiryTypes

(***************************************************************************)
(* C9.  Every finding's bureausAffected has between 1 and 3 entries, also  *)
(* for a group of more than three records.                                 *)
(***************************************************************************)
C9_BureausAffectedAtMostThree ==
    \A i \in 1..Len(findings) : Len(findings[i].bureausAffected) \in 1..3

(***************************************************************************)
(* C10.  runDetectionEngine never raises, whether or not the bundle        *)
(* carries inquiries.                                                      *)
(***************************************************************************)
C10_NeverRaises == pc # "raised"

(***************************************************************************)
(* C12.  For each supplied inquiry the pipeline emits an INQUIRY_EXPIRED   *)
(* finding (severity low, bureausAffected = the inquiry's bureau) if and   *)
(* only if the inquiry is hard, has a date, and its age at the evaluation  *)
(* time is strictly more than 730 days: an inquiry exactly 730 days old, a *)
(* non-hard one and an undated one give none.                              *)
(***************************************************************************)
\* The age in seconds of a calendar date at the evaluation time.
AgeSeconds(now, d) == now - CalendarDay(d) * 24 * 60 * 60

ExpiredInquiry(now, inq) ==
    /\ inq.inquiryType = "hard"
    /\ inq.inquiryDate # <<>>
    /\ IsCalendarDate(inq.inquiryDate)
    /\ AgeSeconds(now, inq.inquiryDate) > 730 * 24 * 60 * 60

InquiryPart ==
    LET Is(f) == f.type \in InquiryTypes IN SelectSeq(findings, Is)

C12_InquiryExpired ==
    (Returned /\ variant = "cli") =>
        LET Exp(inq) == ExpiredInquiry(today, inq)
            expected == SelectSeq(data.inquiries, Exp)
        IN  /\ Len(InquiryPart) = Len(expected)
            /\ \A i \in 1..Len(expected) :
                /\ InquiryPart[i].type = "INQUIRY_EXPIRED"
                /\ InquiryPart[i].severity = "low"
                /\ InquiryPart[i].bureausAffected = <<expected[i].bureau>>
                /\ InquiryPart[i].item = expected[i].creditorName

\* At noon an inquiry dated 730 calendar days back is 730.5 days old and is
\* reported beside one that is undated or not hard, which is not.
C12_Witness ==
    /\ Returned
    /\ variant = "cli"
    /\ today # Midnight
    /\ Len(data.inquiries) = 2
    /\ data.inquiries[1].inquiryDate = D730
    /\ data.inquiries[1].inquiryType = "hard"
    /\ ~ExpiredInquiry(today, data.inquiries[2])
    /\ Len(InquiryPart) = 1
    /\ InquiryPart[1].bureausAffected = <<data.inquiries[1].bureau>>

(***************************************************************************)
(* C13.  A tradeline whose group key is shared by no other tradeline       *)
(* contributes to no finding: a group of fewer than two records has no     *)
(* open-date, last-activity, payment-date, status or limit finding, and    *)
(* every such finding belongs to a group of at least two records and names *)
(* bureaus of that group only.                                             *)
(***************************************************************************)
C13_SingletonGroupsSilent ==
    Returned =>
        /\ \A key \in InputKeys :
              Len(Members(key)) < 2 =>
                  \A type \in TradelineTypes : FindingsFor(key, type) = <<>>
        /\ \A i \in 1..Len(findings) :
              findings[i].type \in TradelineTypes =>
                  \E key \in InputKeys :
                      /\ Len(Members(key)) >= 2
                      /\ findings[i].item = GroupItem(key)
                      /\ Range(findings[i].bureausAffected)
                             \subseteq {Members(key)[k].bureau : k \in 1..Len(Members(key))}

\* Two tradelines of one creditor but of different accounts, hence two groups
\* of one record each, that disagree on open date and status: no finding.
C13_Witness ==
    /\ Returned
    /\ Len(data.tradelines) = 2
    /\ data.tradelines[1].creditorName = data.tradelines[2].creditorName
    /\ GroupKey(data.tradelines[1]) # GroupKey(data.tradelines[2])
    /\ CalendarDiff(data.tradelines[1].openDate, data.tradelines[2].openDate) > 30
    /\ LettersLowered(data.tradelines[1].status) # LettersLowered(data.tradelines[2].status)
    /\ \A i \in 1..Len(findings) : findings[i].type \notin TradelineTypes


(***************************************************************************)
(* Raw report text.  A text is a sequence of lines; a line is its          *)
(* whitespace-separated tokens (strings) and, for each token, the number   *)
(* of spaces that follow it (the last number is the trailing whitespace).  *)
(* A blank line has no token.                                              *)
(***************************************************************************)
\* F(a) with a evaluated once, however often F uses its argument.
Once(a, F(_)) == CHOOSE r \in {F(x) : x \in {a}} : TRUE

Line(toks, gaps) == [toks |-> toks, gaps |-> gaps]
BlankLine == Line(<<>>, <<>>)

Spaces(n) == [i \in 1..n |-> " "]

\* The characters of a line.
RECURSIVE JoinTokens(_, _)
JoinTokens(toks, gaps) ==
    IF toks = <<>> THEN <<>>
    ELSE Head(toks) \o Spaces(Head(gaps)) \o JoinTokens(Tail(toks), Tail(gaps))

LineText(line) == JoinTokens(line.toks, line.gaps)

\* The characters of a text: its lines joined by "\n" (the text is joined
\* half by half, which keeps the evaluation of a long text shallow).
RECURSIVE JoinLines(_)
JoinLines(lines) ==
    IF lines = <<>> THEN <<>>
    ELSE IF Len(lines) = 1 THEN LineText(lines[1])
    ELSE Once(Len(lines) \div 2, LAMBDA half :
             JoinLines(SubSeq(lines, 1, half)) \o <<"\n">>
                 \o JoinLines(SubSeq(lines, half + 1, Len(lines))))

IsWhite(ch) == ch = " " \/ ch = "\n" \/ ch = "\t"

\* s.includes(sub)
Includes(str, sub) ==
    LET In(s) == \E i \in 1..(Len(s) - Len(sub) + 1) : SubSeq(s, i, i + Len(sub) - 1) = sub
    IN  Once(str, In)

StartsWith(s, p) == Len(s) >= Len(p) /\ SubSeq(s, 1, Len(p)) = p

\* s.trim()
Trim(str) ==
    LET Trimmed(s) ==
            Once({i \in 1..Len(s) : ~IsWhite(s[i])}, LAMBDA black :
                IF black = {} THEN <<>>
                ELSE SubSeq(s, Min(black), CHOOSE i \in black : \A j \in black : j <= i))
    IN  Once(str, Trimmed)

\* s.replace(/\s+/g, ' ')
RECURSIVE CollapseSpaces(_)
CollapseSpaces(s) ==
    IF s = <<>> THEN <<>>
    ELSE IF IsWhite(s[1])
         THEN IF Len(s) > 1 /\ IsWhite(s[2]) THEN CollapseSpaces(Tail(s))
              ELSE <<" ">> \o CollapseSpaces(Tail(s))
         ELSE <<s[1]>> \o CollapseSpaces(Tail(s))

(***************************************************************************)
(* The three-column field patterns of the block extractors                 *)
(*   LABEL sep (G) \s+ (?:--|(G))? \s+ (?:--|(G))?                         *)
(* read on the tokens that follow the label.  The pattern is not anchored  *)
(* at the end of the line, both \s+ are mandatory, and a group of the      *)
(* status pattern, \S+(?:\s+\S+)?, takes two tokens when it can.           *)
(***************************************************************************)
Dashes == <<"-", "-">>

InClass(cls, ch) ==
    CASE cls = "digitstar" -> IsDigit(ch) \/ ch = "*"
      [] cls = "digitslash" -> IsDigit(ch) \/ ch = "/"
      [] cls = "digitcomma" -> IsDigit(ch) \/ ch = ","
      [] cls = "digits" -> IsDigit(ch)
      [] OTHER -> TRUE

\* first: class of group 1; rest: class of groups 2 and 3; dollar: \$? before
\* a group; width: the tokens one group can take.
Shape(first, rest, dollar, width) ==
    [first |-> first, rest |-> rest, dollar |-> dollar, width |-> width]

\* Where the capture starts in a token (after an optional $).
CaptureStart(tok, dollar) == IF dollar /\ tok # <<>> /\ tok[1] = "$" THEN 2 ELSE 1

\* The end of the longest run of class characters from the capture start.
ClassEnd(cls, tok, dollar) ==
    LET s == CaptureStart(tok, dollar)
        stops == {i \in s..Len(tok) : ~InClass(cls, tok[i])}
    IN  IF stops = {} THEN Len(tok) ELSE Min(stops) - 1

\* A group followed by \s+ takes k whole tokens from position i; <<>> when it
\* cannot.
Capture(cls, dollar, toks, gaps, i, k) ==
    IF i + k - 1 > Len(toks) THEN <<>>
    ELSE IF k = 2 THEN toks[i] \o Spaces(gaps[i]) \o toks[i + 1]
    ELSE IF ClassEnd(cls, toks[i], dollar) = Len(toks[i])
         THEN SubSeq(toks[i], CaptureStart(toks[i], dollar), Len(toks[i]))
         ELSE <<>>

\* The optional last group at position i: "--" first, else a greedy capture.
LastCapture(sh, toks, gaps, i) ==
    IF i > Len(toks) THEN <<>>
    ELSE IF StartsWith(toks[i], Dashes) THEN <<>>
    ELSE IF sh.width = 2 /\ i + 1 <= Len(toks)
         THEN toks[i] \o Spaces(gaps[i]) \o toks[i + 1]
    ELSE SubSeq(toks[i], CaptureStart(toks[i], sh.dollar),
                ClassEnd(sh.rest, toks[i], sh.dollar))

\* The alternatives of the optional second group at position i, in the order
\* the pattern tries them: "--", then a capture of two tokens, then of one.
SecondAlternatives(sh, toks, gaps, i) ==
    LET two == Capture(sh.rest, sh.dollar, toks, gaps, i, 2)
        one == Capture(sh.rest, sh.dollar, toks, gaps, i, 1)
    IN  (IF i <= Len(toks) /\ toks[i] = Dashes THEN <<[g |-> <<>>, k |-> 1]>> ELSE <<>>)
        \o (IF sh.width = 2 /\ two # <<>> THEN <<[g |-> two, k |-> 2]>> ELSE <<>>)
        \o (IF one # <<>> THEN <<[g |-> one, k |-> 1]>> ELSE <<>>)

NoMatch == [matched |-> FALSE, g |-> <<<<>>, <<>>, <<>>>>]
Matched(g1, g2, g3) == [matched |-> TRUE, g |-> <<g1, g2, g3>>]

\* The match whose first group takes k1 tokens.
MatchWith(sh, toks, gaps, k1) ==
    LET i == k1 + 1
        Followed(a) == gaps[i + a.k - 1] >= 1
        With(g1, alts) ==
            IF g1 = <<>> \/ gaps[k1] < 1 THEN NoMatch
            ELSE IF alts # <<>>
                 THEN Matched(g1, alts[1].g, LastCapture(sh, toks, gaps, i + alts[1].k))
            ELSE IF gaps[k1] >= 2
                 THEN Matched(g1, <<>>, LastCapture(sh, toks, gaps, i))
            ELSE NoMatch
    IN  Once(Capture(sh.first, sh.dollar, toks, gaps, 1, k1), LAMBDA g1 :
            Once(SelectSeq(SecondAlternatives(sh, toks, gaps, i), Followed), LAMBDA alts :
                With(g1, alts)))

\* line.match(regex) for the value tokens that follow the label.
MatchColumns(sh, toks, gaps) ==
    Once(IF sh.width = 2 THEN MatchWith(sh, toks, gaps, 2) ELSE NoMatch, LAMBDA wide :
        IF wide.matched THEN wide ELSE MatchWith(sh, toks, gaps, 1))

\* The lines of a string: s.split('\n')
SplitLines(s) ==
    LET breaks == <<0>> \o SelectSeq([i \in 1..Len(s) |-> i], LAMBDA i : s[i] = "\n")
                        \o <<Len(s) + 1>>
    IN  [k \in 1..(Len(breaks) - 1) |-> SubSeq(s, breaks[k] + 1, breaks[k + 1] - 1)]

\* The tokens and gaps of the characters of a line (leading whitespace is
\* dropped).
Tokenize(s) ==
    LET starts == SelectSeq([i \in 1..Len(s) |-> i],
                            LAMBDA i : ~IsWhite(s[i]) /\ (i = 1 \/ IsWhite(s[i - 1])))
        EndOf(i) == LET white == {j \in i..Len(s) : IsWhite(s[j])}
                    IN  IF white = {} THEN Len(s) ELSE Min(white) - 1
        NextOf(k) == IF k < Len(starts) THEN starts[k + 1] ELSE Len(s) + 1
    IN  Line([k \in 1..Len(starts) |-> SubSeq(s, starts[k], EndOf(starts[k]))],
             [k \in 1..Len(starts) |-> NextOf(k) - EndOf(starts[k]) - 1])


(***************************************************************************)
(* parseDate and parseNumber of the extractors.                            *)
(***************************************************************************)
DigitValue(ch) == (CHOOSE i \in 1..10 : DigitChars[i] = ch) - 1

\* The number a string of digits denotes.
RECURSIVE ToNumber(_)
ToNumber(ds) ==
    IF ds = <<>> THEN 0
    ELSE 10 * ToNumber(SubSeq(ds, 1, Len(ds) - 1)) + DigitValue(ds[Len(ds)])

DigitsAt(s, i, n) == i + n - 1 <= Len(s) /\ \A k \in i..(i + n - 1) : IsDigit(s[k])
CharAt(s, i, ch) == i <= Len(s) /\ s[i] = ch

\* /(\d{1,2})\/(\d{1,2})\/(\d{4})/ matching at position i with groups of a and
\* b digits
MonthDayYearAt(s, i, a, b) ==
    /\ DigitsAt(s, i, a)
    /\ CharAt(s, i + a, "/")
    /\ DigitsAt(s, i + a + 1, b)
    /\ CharAt(s, i + a + b + 1, "/")
    /\ DigitsAt(s, i + a + b + 2, 4)

\* /(\d{1,2})\/(\d{4})/ matching at position i with a group of a digits
MonthYearAt(s, i, a) ==
    DigitsAt(s, i, a) /\ CharAt(s, i + a, "/") /\ DigitsAt(s, i + a + 1, 4)

RemoveWhite(s) == LET Keep(ch) == ~IsWhite(ch) IN SelectSeq(s, Keep)

\* The leftmost match of the first pattern, else of the second, as the date
\* <<y, m, d>> for the string "y-mm-dd"; else the value of failing.
ScanDate(dateStr, failing) ==
    LET First(S) == CHOOSE x \in S : \A y \in S : x[1] <= y[1]
        Full(s, p) ==
            << ToNumber(SubSeq(s, p[1] + p[2] + p[3] + 2, p[1] + p[2] + p[3] + 5)),
               ToNumber(SubSeq(s, p[1], p[1] + p[2] - 1)),
               ToNumber(SubSeq(s, p[1] + p[2] + 1, p[1] + p[2] + p[3])) >>
        Short(s, p) ==
            << ToNumber(SubSeq(s, p[1] + p[2] + 1, p[1] + p[2] + 4)),
               ToNumber(SubSeq(s, p[1], p[1] + p[2] - 1)), 1 >>
        Scan(s) ==
            Once({p \in (1..Len(s)) \X {1, 2} \X {1, 2} :
                     MonthDayYearAt(s, p[1], p[2], p[3])}, LAMBDA mdy :
                IF mdy # {} THEN Once(First(mdy), LAMBDA p : Full(s, p))
                ELSE Once({p \in (1..Len(s)) \X {1, 2} : MonthYearAt(s, p[1], p[2])},
                          LAMBDA my :
                              IF my # {} THEN Once(First(my), LAMBDA p : Short(s, p))
                              ELSE failing))
    IN  Once(dateStr, Scan)

\* A string that parseDate of part_000 hands back as it came: the pair keeps it
\* apart from the dates <<y, m, d>> and from the empty string.
Unparsed(dateStr) == <<dateStr, "unparsed">>

\* parseDate: '' when nothing matches, but the string itself in part_000; the
\* pipeline of part_004 first removes all whitespace.
parseDate(v, dateStr) ==
    IF dateStr = <<>> THEN <<>>
    ELSE ScanDate(IF v = "cli" THEN RemoveWhite(dateStr) ELSE dateStr,
                  IF v = "legacy" THEN Unparsed(dateStr) ELSE <<>>)

\* parseInt(s, 10): the number of the leading digits (after a sign), or NaN.
ParseInt(str) ==
    LET Parse(s) ==
            LET signed == s # <<>> /\ s[1] \in {"+", "-"}
                body == IF signed THEN Tail(s) ELSE s
            IN  Once(ClassEnd("digits", body, FALSE), LAMBDA n :
                    IF n = 0 THEN NaN
                    ELSE IF signed /\ s[1] = "-" THEN Num(0 - ToNumber(SubSeq(body, 1, n)))
                    ELSE Num(ToNumber(SubSeq(body, 1, n))))
    IN  Once(str, Parse)

\* numStr.replace(/[$,\s]/g, '')
StripAmount(s) ==
    LET Keep(ch) == ~(ch = "$" \/ ch = "," \/ IsWhite(ch)) IN SelectSeq(s, Keep)

\* parseNumber: null for no string and for NaN
parseNumber(numStr) ==
    IF numStr = <<>> THEN Null
    ELSE Once(ParseInt(StripAmount(numStr)), LAMBDA num :
             IF num.t = "nan" THEN Null ELSE num)

\* parseAmount of part_000: the same conversion
parseAmount(amtStr) ==
    IF amtStr = <<>> THEN Null
    ELSE Once(ParseInt(StripAmount(amtStr)), LAMBDA num :
             IF num.t = "nan" THEN Null ELSE num)


(***************************************************************************)
(* The block extractors: parseCreditReportText of part_001 ("inline") and  *)
(* parseAccounts of part_004 ("cli").  The Payment Status and Account Type *)
(* patterns of part_004 are left out: the texts hold no such line.         *)
(***************************************************************************)
\* The words of the field labels, in lower case.
WAccount == <<"a", "c", "c", "o", "u", "n", "t">>
WHash == <<"#">>
WHistory == <<"h", "i", "s", "t", "o", "r", "y">>
WCharged == <<"c", "h", "a", "r", "g", "e", "d">>
WOff == <<"o", "f", "f">>
WDate == <<"d", "a", "t", "e">>
WOpened == <<"o", "p", "e", "n", "e", "d">>
WOf == <<"o", "f">>
WLast == <<"l", "a", "s", "t">>
WActivity == <<"a", "c", "t", "i", "v", "i", "t", "y">>
WPayment == <<"p", "a", "y", "m", "e", "n", "t">>
WBalance == <<"b", "a", "l", "a", "n", "c", "e">>
WOwed == <<"o", "w", "e", "d">>
WCredit == <<"c", "r", "e", "d", "i", "t">>
WLimit == <<"l", "i", "m", "i", "t">>
WStatus == <<"s", "t", "a", "t", "u", "s">>
WHigh == <<"h", "i", "g", "h">>
WPast == <<"p", "a", "s", "t">>
WDue == <<"d", "u", "e">>
WAmount == <<"a", "m", "o", "u", "n", "t">>

Fraud == <<"f", "r", "a", "u", "d">>
IdentityTheft == <<"i", "d", "e", "n", "t", "i", "t", "y", " ", "t", "h", "e", "f", "t">>
CollectionWord == <<"c", "o", "l", "l", "e", "c", "t", "i", "o", "n">>
MedicalWord == <<"m", "e", "d", "i", "c", "a", "l">>
HealthWord == <<"h", "e", "a", "l", "t", "h">>
PageWord == <<"p", "a", "g", "e", " ">>
NoiseWords ==
    { <<"h", "t", "t", "p">>,
      <<"t", "r", "a", "n", "s", "u", "n", "i", "o", "n">>,
      <<"e", "x", "p", "e", "r", "i", "a", "n">>,
      <<"e", "q", "u", "i", "f", "a", "x">>,
      <<"d", "a", "y", "s", " ", "l", "a", "t", "e">> }
\* /LVNV|MIDLAND|PORTFOLIO|CAVALRY|IC SYSTEM|ERC|RECEIVABLE/i
CollectorWords ==
    { <<"L", "V", "N", "V">>, <<"M", "I", "D", "L", "A", "N", "D">>,
      <<"P", "O", "R", "T", "F", "O", "L", "I", "O">>,
      <<"C", "A", "V", "A", "L", "R", "Y">>,
      <<"I", "C", " ", "S", "Y", "S", "T", "E", "M">>, <<"E", "R", "C">>,
      <<"R", "E", "C", "E", "I", "V", "A", "B", "L", "E">> }

Pattern(field, words, colon, sh) ==
    [field |-> field, words |-> words, colon |-> colon, shape |-> sh]

DateShape == Shape("digitslash", "digitslash", FALSE, 1)
AmountShape == Shape("digitcomma", "digitcomma", TRUE, 1)

\* fieldPatterns (part_001) / patterns (part_004)
FieldPatterns(v) ==
    { Pattern("accountNumber", <<WAccount, WHash>>, FALSE,
              Shape("digitstar", "nonspace", FALSE, 1)),
      Pattern("openDate", <<WDate, WOpened>>, TRUE, DateShape),
      Pattern("dateOfLastActivity", <<WDate, WOf, WLast, WActivity>>, TRUE, DateShape),
      Pattern("lastPaymentDate", <<WLast, WPayment>>, TRUE, DateShape),
      Pattern("currentBalance", <<WBalance, WOwed>>, TRUE, AmountShape),
      Pattern("creditLimit", <<WCredit, WLimit>>, TRUE, AmountShape),
      Pattern("status", <<WAccount, WStatus>>, TRUE,
              Shape("nonspace", "nonspace", FALSE, 2)) }
    \cup (IF v = "cli"
          THEN { Pattern("highBalance", <<WHigh, WBalance>>, TRUE, AmountShape),
                 Pattern("pastDue", <<WPast, WDue, WAmount>>, TRUE, AmountShape) }
          ELSE {})

PatternOf(v, field) == CHOOSE p \in FieldPatterns(v) : p.field = field

\* The label of a pattern stands at token k of the line (any letter case; the
\* last word may carry the colon that [:\s]+ accepts).
LabelAt(line, pat, k) ==
    LET n == Len(pat.words) IN
    /\ k + n - 1 <= Len(line.toks)
    /\ \A j \in 1..n :
          \/ ToLowerCase(line.toks[k + j - 1]) = pat.words[j]
          \/ /\ j = n
             /\ pat.colon
             /\ ToLowerCase(line.toks[k + j - 1]) = pat.words[j] \o <<":">>

\* line.match(regex): the match at the first label it succeeds from.
MatchLine(pat, line) ==
    LET n == Len(pat.words)
        At(k) == MatchColumns(pat.shape, SubSeq(line.toks, k + n, Len(line.toks)),
                              SubSeq(line.gaps, k + n, Len(line.toks)))
        Try(k) == IF LabelAt(line, pat, k) THEN At(k) ELSE NoMatch
    IN  Once([k \in 1..Len(line.toks) |-> Try(k)], LAMBDA tries :
            LET starts == {k \in 1..Len(tries) : tries[k].matched}
            IN  IF starts = {} THEN NoMatch ELSE tries[Min(starts)])

\* cleanValue of part_004; part_001 trims only.
cleanValue(v, val) == IF v = "cli" THEN CollapseSpaces(Trim(val)) ELSE Trim(val)

\* bureauData[bureau][field] after the loop over the lines of a section: the
\* value of the last line whose match has a capture for the column that is
\* not "--"; <<>> when there is none (undefined).
FieldValue(v, section, field, col) ==
    Once([i \in 1..Len(section) |-> MatchLine(PatternOf(v, field), section[i])], LAMBDA ms :
        LET hits == {i \in 1..Len(ms) :
                        ms[i].matched /\ ms[i].g[col] # <<>> /\ ms[i].g[col] # Dashes}
        IN  IF hits = {} THEN <<>>
            ELSE cleanValue(v, ms[CHOOSE i \in hits : \A j \in hits : j <= i].g[col]))

\* A line that starts with "Account #" followed by whitespace (the line break
\* counts).
IsAccountHeader(text, j) ==
    LET l == text[j] IN
    /\ Len(l.toks) >= 2
    /\ ToLowerCase(l.toks[1]) = WAccount
    /\ l.toks[2] = WHash
    /\ (Len(l.toks) > 2 \/ l.gaps[2] >= 1 \/ j < Len(text))

\* text.split(/(?=\n\s*Account\s*#\s+)/i): the lines a new section starts at.
\* The line break before an account header, and before each blank line that
\* leads to one, matches the lookahead; a match at position 0 does not split.
Cuts(text) ==
    {i \in 2..Len(text) :
        /\ ~(i = 2 /\ LineText(text[1]) = <<>>)
        /\ \E j \in i..Len(text) :
              /\ IsAccountHeader(text, j)
              /\ \A m \in i..(j - 1) : text[m].toks = <<>>}

\* sections[r], r = 0 .. number of cuts
Section(text, r) ==
    LET Between(cuts) ==
            LET CutNo(k) == CHOOSE i \in cuts : Cardinality({j \in cuts : j < i}) = k - 1
                from == IF r = 0 THEN 1 ELSE CutNo(r)
                to == IF r = Cardinality(cuts) THEN Len(text) ELSE CutNo(r + 1) - 1
            IN  SubSeq(text, from, to)
    IN  Once(Cuts(text), Between)

\* /Page \d+|http|Transunion|Experian|Equifax|Days Late/i
IsNoise(line) ==
    LET Noisy(t) ==
            \/ \E w \in NoiseWords : Includes(t, w)
            \/ \E i \in 1..Len(t) :
                  /\ i + Len(PageWord) <= Len(t)
                  /\ SubSeq(t, i, i + Len(PageWord) - 1) = PageWord
                  /\ IsDigit(t[i + Len(PageWord)])
    IN  Once(ToLowerCase(LineText(line)), Noisy)

\* line.split(/\s{3,}/)[0].trim() of a trimmed line
FirstField(line) ==
    LET wide == {k \in 1..Len(line.toks) : line.gaps[k] >= 3}
        k == IF wide = {} THEN Len(line.toks) ELSE Min(wide)
    IN  JoinTokens(SubSeq(line.toks, 1, k),
                   [j \in 1..k |-> IF j = k THEN 0 ELSE line.gaps[j]])

\* The creditor name: the last line of the previous section that is neither
\* blank nor noise; '' when there is none.
CreditorOf(prevSection) ==
    Once({i \in 1..Len(prevSection) :
             prevSection[i].toks # <<>> /\ ~IsNoise(prevSection[i])},
         LAMBDA named :
             IF named = {} THEN <<>>
             ELSE FirstField(prevSection[CHOOSE i \in named : \A j \in named : j <= i]))

IsCollectionBlock(v, section, creditorName) ==
    \/ Includes(ToLowerCase(JoinLines(section)), CollectionWord)
    \/ (v = "cli" /\ Includes(ToLowerCase(creditorName), CollectionWord))
    \/ \E w \in CollectorWords : Includes(ToUpperCase(creditorName), w)

\* The decimal digits of a natural number.
RECURSIVE ToDigits(_)
ToDigits(n) ==
    IF n < 10 THEN <<DigitChars[n + 1]>>
    ELSE ToDigits(n \div 10) \o <<DigitChars[(n % 10) + 1]>>

\* `${isCollection ? 'c' : 't'}${accountId}`
AccountId(isCollection, n) == (IF isCollection THEN <<"c">> ELSE <<"t">>) \o ToDigits(n)

\* (data.accountNumber || '').replace(/\*/g, '').slice(-4)
Partial(accountNumber) ==
    LET Keep(ch) == ch # "*" IN SliceLast(SelectSeq(accountNumber, Keep), 4)

\* combineStatus(status, undefined)
combineStatus(status) == status

\* parseNumber(data.currentBalance) || parseNumber(data.pastDue)
BalanceOr(first, second) == IF Truthy(first) THEN first ELSE second

\* The account of one bureau of a block; the fields of a collection are added
\* by Collected.
Account(id, name, partial, bureau, status, open, dla, pay, limit, balance, isCollection) ==
    [id |-> id, creditorName |-> name, accountNumberPartial |-> partial,
     bureau |-> bureau, status |-> status, openDate |-> open,
     dateOfFirstDelinquency |-> <<>>, dateOfLastActivity |-> dla,
     lastPaymentDate |-> pay, creditLimit |-> limit, currentBalance |-> balance,
     isCollection |-> isCollection]

\* account.collectorName = ...; account.originalCreditor = ''; account.isMedical = ...
Collected(account, isMedical) ==
    [f \in DOMAIN account \cup {"collectorName", "originalCreditor", "isMedical"} |->
        CASE f = "collectorName" -> account.creditorName
          [] f = "originalCreditor" -> <<>>
          [] f = "isMedical" -> isMedical
          [] OTHER -> account[f]]

BureauCodes == <<"TU", "EX", "EQ">>

\* bureauData after the loop over the lines: the value of every field in
\* every column
FieldNames(v) == {p.field : p \in FieldPatterns(v)}

BureauData(v, section) ==
    [field \in FieldNames(v) |-> [col \in 1..3 |-> FieldValue(v, section, field, col)]]

\* if (data.accountNumber || data.currentBalance || data.openDate)
HasData(bureauData, col) ==
    \/ bureauData["accountNumber"][col] # <<>>
    \/ bureauData["currentBalance"][col] # <<>>
    \/ bureauData["openDate"][col] # <<>>

\* The accounts of a section, numbered from firstId.
SectionAccounts(v, bureauData, name, isCollection, firstId) ==
    LET cols == SelectSeq(<<1, 2, 3>>, LAMBDA col : HasData(bureauData, col))
        Of(k) ==
            LET col == cols[k]
                balance == parseNumber(bureauData["currentBalance"][col])
                account ==
                    Account(AccountId(isCollection, firstId + k - 1), name,
                            Partial(bureauData["accountNumber"][col]), BureauCodes[col],
                            combineStatus(bureauData["status"][col]),
                            parseDate(v, bureauData["openDate"][col]),
                            parseDate(v, bureauData["dateOfLastActivity"][col]),
                            parseDate(v, bureauData["lastPaymentDate"][col]),
                            parseNumber(bureauData["creditLimit"][col]),
                            IF v = "cli"
                            THEN BalanceOr(balance, parseNumber(bureauData["pastDue"][col]))
                            ELSE balance,
                            isCollection)
            IN  IF isCollection
                THEN Collected(account,
                               \/ Includes(ToLowerCase(name), MedicalWord)
                               \/ (v = "cli" /\ Includes(ToLowerCase(name), HealthWord)))
                ELSE account
    IN  [k \in 1..Len(cols) |-> Of(k)]

\* The accounts of section r.
BlockAccounts(v, text, r, firstId) ==
    Once(Section(text, r), LAMBDA section :
        Once(CreditorOf(Section(text, r - 1)), LAMBDA name :
            Once(BureauData(v, section), LAMBDA bureauData :
                Once(IsCollectionBlock(v, section, name), LAMBDA isCollection :
                    SectionAccounts(v, bureauData, name, isCollection, firstId)))))

\* The accounts of sections r .. last, in the order they are pushed.
RECURSIVE AccountsFrom(_, _, _, _)
AccountsFrom(v, text, r, firstId) ==
    IF r > Cardinality(Cuts(text)) THEN <<>>
    ELSE Once(BlockAccounts(v, text, r, firstId), LAMBDA these :
             Once(firstId + Len(these), LAMBDA nextId :
                 these \o AccountsFrom(v, text, r + 1, nextId)))

parseAccounts(v, text) == AccountsFrom(v, text, 1, 1)

\* The fraud flag of the client: the first 100 lines are scanned.
ScannedLines == 100

extractClientInfo(v, text) ==
    [idTheft |->
        \E i \in 1..Len(text) :
            /\ i <= ScannedLines
            /\ \/ Includes(ToLowerCase(LineText(text[i])), Fraud)
               \/ (v = "cli" /\ Includes(ToLowerCase(LineText(text[i])), IdentityTheft))]


(***************************************************************************)
(* parseInquiries of part_004.                                             *)
(***************************************************************************)
InquiriesWord == <<"i", "n", "q", "u", "i", "r", "i", "e", "s">>
PublicRecordsWord ==
    <<"p", "u", "b", "l", "i", "c", " ", "r", "e", "c", "o", "r", "d", "s">>
BureauWords ==
    << <<"t", "r", "a", "n", "s", "u", "n", "i", "o", "n">>,
       <<"e", "x", "p", "e", "r", "i", "a", "n">>,
       <<"e", "q", "u", "i", "f", "a", "x">> >>

\* The positions a word occurs at in a string.
Occurrences(s, w) ==
    {i \in 1..(Len(s) - Len(w) + 1) : SubSeq(s, i, i + Len(w) - 1) = w}

\* content.match(/Inquiries.*?(?=Public Records|$)/is): the characters from
\* the first "Inquiries" up to the next "Public Records" or the end; <<>>
\* when there is no "Inquiries".
InquirySection(content) ==
    LET Between(low, starts) ==
            LET from == Min(starts)
                ends == {i \in Occurrences(low, PublicRecordsWord) :
                            i >= from + Len(InquiriesWord)}
                to == IF ends = {} THEN Len(content) ELSE Min(ends) - 1
            IN  SubSeq(content, from, to)
    IN  Once(ToLowerCase(content), LAMBDA low :
            Once(Occurrences(low, InquiriesWord), LAMBDA starts :
                IF starts = {} THEN <<>> ELSE Between(low, starts)))

IsLetter(ch) == IsUpper(ch) \/ IsLower(ch)
\* [A-Z0-9\/\-] under the i flag (the whitespace of the class lies between
\* the tokens)
InNameClass(ch) == IsLetter(ch) \/ IsDigit(ch) \/ ch = "/" \/ ch = "-"
AllIn(s, from, Test(_)) == \A i \in from..Len(s) : Test(s[i])
IsDateToken(tok) == tok # <<>> /\ ClassEnd("digitslash", tok, FALSE) = Len(tok)
BureauWordOf(tok) == {k \in 1..3 : StartsWith(ToLowerCase(tok), BureauWords[k])}

\* line.match(/([A-Z][A-Z0-9\s\/\-]+)\s+([\d\/]+)\s+(TransUnion|Experian|Equifax)/i)
\* read on the tokens of the line: the name starts at character o of token a
\* (the leftmost start that matches) and runs up to the token before the
\* date token d (the last one that can be, the name group being greedy); the
\* token after the date starts with a bureau name.
InquiryCandidates(line) ==
    LET n == Len(line.toks) IN
    {p \in (1..n) \X (1..20) \X (1..n) :
        LET a == p[1]
            o == p[2]
            d == p[3]
        IN  /\ o <= Len(line.toks[a])
            /\ a < d
            /\ d < n
            /\ IsLetter(line.toks[a][o])
            /\ AllIn(line.toks[a], o, InNameClass)
            /\ \A m \in (a + 1)..(d - 1) : AllIn(line.toks[m], 1, InNameClass)
            /\ IsDateToken(line.toks[d])
            /\ BureauWordOf(line.toks[d + 1]) # {}
            /\ (d - 1 > a \/ Len(line.toks[a]) - o + 1 >= 2 \/ line.gaps[d - 1] >= 2)}

\* BUREAU_MAP[match[3].toLowerCase()]
BUREAU_MAP(k) == BureauCodes[k]

\* The inquiry of a line, as a sequence of none or one.
InquiryOfLine(line) ==
    LET Earliest(cands) ==
            CHOOSE p \in cands :
                \A r \in cands : p[1] < r[1] \/ (p[1] = r[1] /\ p[2] <= r[2])
        Latest(cands, a, o) ==
            CHOOSE x \in {p[3] : p \in {r \in cands : r[1] = a /\ r[2] = o}} :
                \A p \in cands : (p[1] = a /\ p[2] = o) => p[3] <= x
        Name(a, o, d) ==
            JoinTokens(<<SubSeq(line.toks[a], o, Len(line.toks[a]))>>
                           \o SubSeq(line.toks, a + 1, d - 1),
                       [j \in 1..(d - a) |-> IF j = d - a THEN 0 ELSE line.gaps[a + j - 1]])
        Of(a, o, d) ==
            << Inquiry(Trim(Name(a, o, d)), parseDate("cli", line.toks[d]),
                       BUREAU_MAP(Min(BureauWordOf(line.toks[d + 1]))), "hard") >>
    IN  Once(InquiryCandidates(line), LAMBDA cands :
            IF cands = {} THEN <<>>
            ELSE Once(Earliest(cands), LAMBDA first :
                     Once(Latest(cands, first[1], first[2]), LAMBDA d :
                         Of(first[1], first[2], d))))

parseInquiries(text) ==
    LET Of(lines) ==
            Flatten([i \in 1..Len(lines) |-> Once(Tokenize(lines[i]), InquiryOfLine)])
    IN  Once(InquirySection(JoinLines(text)), LAMBDA section :
            IF section = <<>> THEN <<>> ELSE Once(SplitLines(section), Of))

(***************************************************************************)
(* The bundle an extractor returns: { client, tradelines, collections,     *)
(* inquiries } (hasInquiries: the bundle has the inquiries property).      *)
(***************************************************************************)
Extracted(client, ts, cs, is) ==
    [client |-> client, tradelines |-> ts, collections |-> cs,
     hasInquiries |-> TRUE, inquiries |-> is]

IsCollectionAccount(a) == a.isCollection
IsTradelineAccount(a) == ~a.isCollection

\* parseCreditReportPDF of part_004, from the text that pdftotext extracted
parseCreditReportPDF(text) ==
    Once(parseAccounts("cli", text), LAMBDA accounts :
        Extracted(extractClientInfo("cli", text),
                  SelectSeq(accounts, IsTradelineAccount),
                  SelectSeq(accounts, IsCollectionAccount), parseInquiries(text)))


(***************************************************************************)
(* parseCreditReport of part_000 ("legacy"): a line scanner that collects  *)
(* the columns of each labelled line, makes one account per detected       *)
(* bureau at the next creditor line, and falls back on                     *)
(* simpleAccountExtraction when it found no account.                       *)
(***************************************************************************)
\* The length of the run of characters from position i that pass Test.
RunFrom(s, i, Test(_)) ==
    LET stops == {k \in i..Len(s) : ~Test(s[k])}
    IN  IF stops = {} THEN Len(s) - i + 1 ELSE Min(stops) - i

\* /w1\s*w2\s*.../i matches at position i of s; the words are in lower case
RECURSIVE WordsAt(_, _, _)
WordsAt(s, i, words) ==
    LET w == Head(words)
        after == i + Len(w)
    IN  /\ after - 1 <= Len(s)
        /\ ToLowerCase(SubSeq(s, i, after - 1)) = w
        /\ \/ Len(words) = 1
           \/ WordsAt(s, after + RunFrom(s, after, IsWhite), Tail(words))

\* line.match(/w1\s*w2.../i)
HasWords(s, words) == \E i \in 1..Len(s) : WordsAt(s, i, words)

\* line.match(/^(w1|w2|...)/i)
StartsWithAny(s, ws) == \E w \in ws : StartsWith(ToLowerCase(s), w)

\* /^[A-Z][A-Z0-9\s\/\-&]{3,30}$/ and not a bureau or label line
CreditorChar(ch) == IsUpper(ch) \/ IsDigit(ch) \/ IsWhite(ch) \/ ch \in {"/", "-", "&"}

NotCreditors ==
    {<<"t","r","a","n","s","u","n","i","o","n">>, <<"e","x","p","e","r","i","a","n">>,
     <<"e","q","u","i","f","a","x">>, <<"a","c","c","o","u","n","t">>, <<"d","a","t","e">>,
     <<"b","a","l","a","n","c","e">>, <<"s","t","a","t","u","s">>, <<"c","r","e","d","i","t">>}

IsCreditorLine(line) ==
    /\ Len(line) >= 4
    /\ Len(line) <= 31
    /\ IsUpper(line[1])
    /\ \A i \in 2..Len(line) : CreditorChar(line[i])
    /\ ~StartsWithAny(line, NotCreditors)

\* cleaned.split(/\s{2,}|\t+/): a run of two or more white characters, or one
\* tab, separates two parts
SplitColumns(s) ==
    LET seps == SelectSeq([i \in 1..Len(s) |-> i],
                          LAMBDA i : /\ IsWhite(s[i])
                                     /\ (i = 1 \/ ~IsWhite(s[i - 1]))
                                     /\ (RunFrom(s, i, IsWhite) >= 2 \/ s[i] = "\t"))
        From(k) == IF k = 1 THEN 1 ELSE seps[k - 1] + RunFrom(s, seps[k - 1], IsWhite)
        To(k) == IF k > Len(seps) THEN Len(s) ELSE seps[k] - 1
    IN  [k \in 1..(Len(seps) + 1) |-> SubSeq(s, From(k), To(k))]

Placeholders == {<<"-", "-">>, <<"-">>, <<"N", "/", "A">>}

\* line.replace(new RegExp(fieldName + '[:\\s]*', 'i'), ''): the first
\* occurrence of the name goes, with the colons and white space after it
RemoveLabel(line, fieldName) ==
    LET Sep(ch) == ch = ":" \/ IsWhite(ch)
        Cut(i) == LET after == i + Len(fieldName)
                  IN  SubSeq(line, 1, i - 1)
                          \o SubSeq(line, after + RunFrom(line, after, Sep), Len(line))
    IN  Once({i \in 1..(Len(line) - Len(fieldName) + 1) :
                 ToLowerCase(SubSeq(line, i, i + Len(fieldName) - 1)) = fieldName},
             LAMBDA at : IF at = {} THEN line ELSE Cut(Min(at)))

\* The values of the line that are neither empty nor a placeholder, closed up
\* to the left.
extractMultiColumnValues(line, fieldName) ==
    LET Kept(part) == part # <<>> /\ part \notin Placeholders
        Values(cleaned) ==
            Once(SplitColumns(cleaned), LAMBDA parts :
                SelectSeq([i \in 1..Len(parts) |-> Trim(parts[i])], Kept))
    IN  Once(Trim(RemoveLabel(line, fieldName)), Values)

\* detectBureauColumns: the bureaus whose name the text holds in one of two
\* spellings, or all three
BureauSpellings ==
    << {<<"T","r","a","n","s","U","n","i","o","n">>, <<"T","R","A","N","S","U","N","I","O","N">>},
       {<<"E","x","p","e","r","i","a","n">>, <<"E","X","P","E","R","I","A","N">>},
       {<<"E","q","u","i","f","a","x">>, <<"E","Q","U","I","F","A","X">>} >>

detectBureauColumns(text) ==
    LET Found(content) ==
            SelectSeq(<<1, 2, 3>>, LAMBDA k : \E w \in BureauSpellings[k] : Includes(content, w))
    IN  Once(Found(JoinLines(text)), LAMBDA found :
            IF found = <<>> THEN BureauCodes
            ELSE [i \in 1..Len(found) |-> BureauCodes[found[i]]])

\* /COLLECT|RECOVERY|PORTFOLIO|MIDLAND|LVNV|CAVALRY|RECEIVABLE/i; route.js
\* has no RECEIVABLE
CollectorNames(v) ==
    {<<"c","o","l","l","e","c","t">>, <<"r","e","c","o","v","e","r","y">>,
     <<"p","o","r","t","f","o","l","i","o">>, <<"m","i","d","l","a","n","d">>,
     <<"l","v","n","v">>, <<"c","a","v","a","l","r","y">>}
        \cup (IF v = "route" THEN {} ELSE {<<"r","e","c","e","i","v","a","b","l","e">>})

IsCollector(v, name) ==
    Once(ToLowerCase(name), LAMBDA low : \E w \in CollectorNames(v) : Includes(low, w))

\* currentData: a function from the keys that were set to their values
NoData == [k \in {} |-> <<>>]

Put(d, k, val) == [x \in DOMAIN d \cup {k} |-> IF x = k THEN val ELSE d[x]]

\* data.key && data.key[b] ? data.key[b] : ''
ValueAt(d, k, b) == IF k \in DOMAIN d /\ b <= Len(d[k]) THEN d[k][b] ELSE <<>>

\* One account for every detected bureau, whatever the values.
createAccountsFromData(creditor, d, startId, bureaus) ==
    LET Of(b, isCollection) ==
            LET account ==
                    Account(AccountId(isCollection, startId + b - 1), creditor,
                            IF ValueAt(d, "accountNumbers", b) # <<>>
                            THEN SliceLast(ValueAt(d, "accountNumbers", b), 4)
                            ELSE SliceLast(ToDigits(1000 + startId), 4),
                            bureaus[b],
                            ValueAt(d, "statuses", b),
                            parseDate("legacy", ValueAt(d, "openDates", b)),
                            parseDate("legacy", ValueAt(d, "dlaValues", b)),
                            <<>>,
                            parseAmount(ValueAt(d, "limits", b)),
                            IF ValueAt(d, "balances", b) # <<>>
                            THEN parseAmount(ValueAt(d, "balances", b)) ELSE Num(0),
                            isCollection)
            IN  IF isCollection
                THEN Collected(account, Includes(ToLowerCase(creditor), MedicalWord))
                ELSE account
    IN  Once("isCollection" \in DOMAIN d \/ IsCollector("legacy", creditor),
             LAMBDA isCollection : [b \in 1..Len(bureaus) |-> Of(b, isCollection)])

\* The state of the line loop of parseCreditReport.
ScanState(creditor, d, accountId, accounts) ==
    [currentCreditor |-> creditor, currentData |-> d, accountId |-> accountId,
     accounts |-> accounts]

\* if (currentCreditor && Object.keys(currentData).length > 0) { save }
Flush(st, bureaus) ==
    IF st.currentCreditor # <<>> /\ DOMAIN st.currentData # {}
    THEN Once(createAccountsFromData(st.currentCreditor, st.currentData,
                                     st.accountId, bureaus),
              LAMBDA made : ScanState(st.currentCreditor, st.currentData,
                                      st.accountId + Len(made), st.accounts \o made))
    ELSE st

\* The fields a line sets: the key of each test of the loop that the line
\* passes, with the values the line gives it.
LineKeys(line) ==
    {k \in {"accountNumbers", "openDates", "dlaValues", "statuses", "limits",
            "balances", "isCollection"} :
        CASE k = "accountNumbers" -> HasWords(line, <<WAccount, WHash>>)
          [] k = "openDates" -> HasWords(line, <<WDate, WOpened>>)
          [] k = "dlaValues" -> HasWords(line, <<WLast, WActivity>>)
          [] k = "statuses" ->
                HasWords(line, <<WAccount, WStatus>>) \/ StartsWithAny(line, {WStatus})
          [] k = "limits" ->
                HasWords(line, <<WCredit, WLimit>>) \/ HasWords(line, <<WHigh, WCredit>>)
          [] k = "balances" ->
                HasWords(line, <<WBalance>>) /\ ~HasWords(line, <<WBalance, WHistory>>)
          [] k = "isCollection" ->
                HasWords(line, <<CollectionWord>>) \/ HasWords(line, <<WCharged, WOff>>)}

LineValue(line, k) ==
    CASE k = "accountNumbers" -> extractMultiColumnValues(line, WAccount)
      [] k = "openDates" -> extractMultiColumnValues(line, WDate \o <<" ">> \o WOpened)
      [] k = "dlaValues" -> extractMultiColumnValues(line, WActivity)
      [] k = "statuses" -> extractMultiColumnValues(line, WStatus)
      [] k = "limits" -> extractMultiColumnValues(line, WLimit)
      [] k = "balances" -> extractMultiColumnValues(line, WBalance)
      [] k = "isCollection" -> TRUE

LineData(d, line) ==
    Once(LineKeys(line), LAMBDA keys :
        [k \in DOMAIN d \cup keys |-> IF k \in keys THEN LineValue(line, k) ELSE d[k]])

\* One turn of the loop over the lines.
ScanLine(st, raw, bureaus) ==
    LET Started(line) ==
            IF IsCreditorLine(line)
            THEN Once(Flush(st, bureaus),
                      LAMBDA f : ScanState(line, NoData, f.accountId, f.accounts))
            ELSE st
        Turn(line) ==
            Once(Started(line), LAMBDA saved :
                ScanState(saved.currentCreditor, LineData(saved.currentData, line),
                          saved.accountId, saved.accounts))
    IN  Once(Trim(raw), Turn)

\* The loop over lines i .. j, started in state st (the range is scanned half
\* by half, which keeps the evaluation of a long text shallow).
RECURSIVE ScanRange(_, _, _, _, _)
ScanRange(st, text, i, j, bureaus) ==
    IF i > j THEN st
    ELSE IF i = j THEN ScanLine(st, LineText(text[i]), bureaus)
    ELSE Once(ScanRange(st, text, i, (i + j) \div 2, bureaus),
              LAMBDA next : ScanRange(next, text, ((i + j) \div 2) + 1, j, bureaus))

ScanLines(st, text, i, bureaus) == ScanRange(st, text, i, Len(text), bureaus)

\* The accounts of the structured pass, the last account included.
StructuredAccounts(text) ==
    Once(detectBureauColumns(text), LAMBDA bureaus :
        Once(ScanLines(ScanState(<<>>, NoData, 1, <<>>), text, 1, bureaus),
             LAMBDA st : Flush(st, bureaus).accounts))

(***************************************************************************)
(* The creditor-like names and the dates that simpleAccountExtraction of   *)
(* part_000 and parseCreditReportText of route.js find anywhere in the     *)
(* text.                                                                   *)
(***************************************************************************)
\* (BANK|CARD|FINANCIAL|CREDIT|LOAN|MORTGAGE|AUTO|CAPITAL|FUNDING)?; route.js
\* has no FUNDING
CreditorKeywords(v) ==
    {<<"B","A","N","K">>, <<"C","A","R","D">>, <<"F","I","N","A","N","C","I","A","L">>,
     <<"C","R","E","D","I","T">>, <<"L","O","A","N">>, <<"M","O","R","T","G","A","G","E">>,
     <<"A","U","T","O">>, <<"C","A","P","I","T","A","L">>}
        \cup (IF v = "route" THEN {} ELSE {<<"F","U","N","D","I","N","G">>})

\* /([A-Z]{2,}[\s\/]?[A-Z]*\s*(KEYWORD)?)/ matches at position i; every part
\* takes as much as it can
CreditorStartsAt(s, i) == RunFrom(s, i, IsUpper) >= 2

CreditorMatchEnd(v, s, i) ==
    LET End(p4) ==
            LET kws == {w \in CreditorKeywords(v) : StartsWith(SubSeq(s, p4, Len(s)), w)}
            IN  IF kws = {} THEN p4 - 1 ELSE p4 + Len(CHOOSE w \in kws : TRUE) - 1
        Optional(p1) == IF p1 <= Len(s) /\ (IsWhite(s[p1]) \/ s[p1] = "/") THEN p1 + 1 ELSE p1
    IN  Once(i + RunFrom(s, i, IsUpper), LAMBDA p1 :
            Once(Optional(p1), LAMBDA p2 :
                Once(p2 + RunFrom(s, p2, IsUpper), LAMBDA p3 :
                    Once(p3 + RunFrom(s, p3, IsWhite), End))))

\* text.match(/.../g): the matches from position i on, left to right
RECURSIVE CreditorMatches(_, _, _)
CreditorMatches(v, s, i) ==
    LET starts == {k \in i..Len(s) : CreditorStartsAt(s, k)}
    IN  IF starts = {} THEN <<>>
        ELSE Once(Min(starts), LAMBDA k :
                 Once(CreditorMatchEnd(v, s, k), LAMBDA e :
                     <<SubSeq(s, k, e)>> \o CreditorMatches(v, s, e + 1)))

\* The names that are kept: trimmed, of the right length, not seen before and,
\* in part_000, not a label.
NotNames ==
    {<<"t","r","a","n","s","u","n","i","o","n">>, <<"e","x","p","e","r","i","a","n">>,
     <<"e","q","u","i","f","a","x">>, <<"a","c","c","o","u","n","t">>,
     <<"s","t","a","t","u","s">>, <<"d","a","t","e">>, <<"b","a","l","a","n","c","e">>,
     <<"c","r","e","d","i","t"," ","l","i","m","i","t">>, <<"p","a","g","e">>,
     <<"r","e","p","o","r","t">>}

MinNameLen(v) == IF v = "route" THEN 3 ELSE 4
MaxNameLen(v) == IF v = "route" THEN 40 ELSE 35
MaxCreditors(v) == IF v = "route" THEN 20 ELSE 15

RECURSIVE UniqueCreditors(_, _, _)
UniqueCreditors(v, matches, seen) ==
    LET Keep(cred) ==
            /\ Len(cred) > MinNameLen(v)
            /\ Len(cred) < MaxNameLen(v)
            /\ cred \notin Range(seen)
            /\ (v = "route" \/ ~StartsWithAny(cred, NotNames))
        With(cred) == IF Keep(cred) THEN Append(seen, cred) ELSE seen
    IN  IF matches = <<>> THEN seen
        ELSE Once(With(Trim(Head(matches))), LAMBDA next :
                 Once(Tail(matches), LAMBDA rest : UniqueCreditors(v, rest, next)))

\* /\d{1,2}\/\d{1,2}\/\d{4}/ at position i, and in route.js also /\d{1,2}\/\d{4}/:
\* the length of the match, or 0
DateLengthAt(v, s, i) ==
    LET full == {p \in {1, 2} \X {1, 2} : MonthDayYearAt(s, i, p[1], p[2])}
        short == {a \in {1, 2} : MonthYearAt(s, i, a)}
    IN  IF full # {} THEN LET p == CHOOSE x \in full : TRUE IN p[1] + p[2] + 6
        ELSE IF v = "route" /\ short # {} THEN (CHOOSE a \in short : TRUE) + 5
        ELSE 0

RECURSIVE DateMatches(_, _, _)
DateMatches(v, s, i) ==
    LET starts == {k \in i..Len(s) : DateLengthAt(v, s, k) > 0}
    IN  IF starts = {} THEN <<>>
        ELSE Once(Min(starts), LAMBDA k :
                 Once(k + DateLengthAt(v, s, k), LAMBDA after :
                     <<SubSeq(s, k, after - 1)>> \o DateMatches(v, s, after)))

\* dates[index] ? parseDate(dates[index]) : '' with index taken modulo
\* Math.max(dates.length, 1), counted from 0
DateOf(v, dates, index) ==
    IF dates = <<>> THEN <<>>
    ELSE parseDate(v, dates[(index % Len(dates)) + 1])

\* simpleAccountExtraction: three accounts (TU, EX, EQ) for each of the first
\* 15 names, with made-up statuses and limits.
SimpleStatus(b) == IF b = 2 THEN <<"C","l","o","s","e","d">> ELSE <<"O","p","e","n">>
SimpleLimit(b) == IF b = 3 THEN Null ELSE Num(5000)

SimpleAccounts(names, dates) ==
    LET count == IF Len(names) < MaxCreditors("legacy") THEN Len(names)
                 ELSE MaxCreditors("legacy")
        Of(n, cr, b, isCollection) ==
            LET account ==
                    Account(AccountId(isCollection, n), names[cr + 1],
                            SliceLast(ToDigits(1000 + cr), 4), BureauCodes[b],
                            SimpleStatus(b),
                            DateOf("legacy", dates, cr * 3 + b - 1),
                            DateOf("legacy", dates, cr * 3 + b),
                            <<>>, SimpleLimit(b), Num(0), isCollection)
            IN  IF isCollection THEN Collected(account, FALSE) ELSE account
    IN  [n \in 1..(3 * count) |->
            Once(IsCollector("legacy", names[((n - 1) \div 3) + 1]), LAMBDA isCollection :
                Of(n, (n - 1) \div 3, ((n - 1) % 3) + 1, isCollection))]

simpleAccountExtraction(text) ==
    Once(JoinLines(text), LAMBDA content :
        Once(UniqueCreditors("legacy", CreditorMatches("legacy", content, 1), <<>>),
             LAMBDA names :
                 Once(Substring0(DateMatches("legacy", content, 1), 100),
                      LAMBDA dates : SimpleAccounts(names, dates))))

\* parseCreditReport: the structured accounts, or those of the simple
\* extraction when there are none.
\* (a test of the tradelines alone, which would discard structured collections)
FallbackWithoutTradelines(structured) == SelectSeq(structured, IsTradelineAccount) = <<>>

FallbackRuns(structured) == structured = <<>>

parseCreditReport(text) ==
    LET Bundled(accounts) ==
            Extracted([idTheft |-> Includes(ToLowerCase(JoinLines(text)), Fraud)],
                      SelectSeq(accounts, IsTradelineAccount),
                      SelectSeq(accounts, IsCollectionAccount),
                      <<>>)
    IN  Once(StructuredAccounts(text), LAMBDA structured :
            IF FallbackRuns(structured) THEN Once(simpleAccountExtraction(text), Bundled)
            ELSE Bundled(structured))

(***************************************************************************)
(* parseCreditReportText of route.js ("route"): accounts are made up for   *)
(* the creditor-like names of the text, one per bureau the text names.     *)
(***************************************************************************)
BureauMarks ==
    << {<<"T","r","a","n","s","U","n","i","o","n">>, <<"T","U">>},
       {<<"E","x","p","e","r","i","a","n">>, <<"E","X">>},
       {<<"E","q","u","i","f","a","x">>, <<"E","Q">>} >>

RouteBureaus(content) ==
    Once(SelectSeq(<<1, 2, 3>>, LAMBDA k : \E w \in BureauMarks[k] : Includes(content, w)),
         LAMBDA found :
             IF found = <<>> THEN BureauCodes
             ELSE [i \in 1..Len(found) |-> BureauCodes[found[i]]])

RouteStatus(isCollection, cr) ==
    IF isCollection THEN <<"C","o","l","l","e","c","t","i","o","n">>
    ELSE IF cr % 3 = 0 THEN <<"O","p","e","n">> ELSE <<"C","l","o","s","e","d">>

SampleAccounts(names, dates, bureaus) ==
    LET nb == Len(bureaus)
        Of(n, cr, b, isCollection) ==
            LET dateIndex == IF dates = <<>> THEN 0 ELSE (cr * nb + b) % Len(dates)
                account ==
                    Account(AccountId(isCollection, n), names[cr + 1],
                            SliceLast(ToDigits(1000 + cr), 4), bureaus[b + 1],
                            RouteStatus(isCollection, cr),
                            DateOf("route", dates, dateIndex),
                            DateOf("route", dates, dateIndex + b + 1),
                            <<>>,
                            IF cr % 2 = 0 THEN Num(5000) ELSE Null,
                            IF cr % 4 = 0 THEN Num(1000) ELSE Num(0),
                            isCollection)
            IN  IF isCollection
                THEN Collected(account, Includes(ToLowerCase(names[cr + 1]), MedicalWord))
                ELSE account
    IN  [n \in 1..(nb * Len(names)) |->
            Once(IsCollector("route", names[((n - 1) \div nb) + 1]), LAMBDA isCollection :
                Of(n, (n - 1) \div nb, (n - 1) % nb, isCollection))]

RouteAccounts(text) ==
    Once(JoinLines(text), LAMBDA content :
        Once(Substring0(UniqueCreditors("route", CreditorMatches("route", content, 1), <<>>),
                        MaxCreditors("route")),
             LAMBDA names :
                 Once(DateMatches("route", content, 1), LAMBDA dates :
                     Once(RouteBureaus(content), LAMBDA bureaus :
                         SampleAccounts(names, dates, bureaus)))))

\* parseCreditReportText: of route.js, and of part_001 (the block extractor,
\* which returns no inquiries)
parseCreditReportText(v, text) ==
    LET client == IF v = "route"
                  THEN [idTheft |-> Includes(ToLowerCase(JoinLines(text)), Fraud)]
                  ELSE extractClientInfo("inline", text)
    IN  Once(IF v = "route" THEN RouteAccounts(text) ELSE parseAccounts("inline", text),
             LAMBDA accounts :
                 Extracted(client,
                           SelectSeq(accounts, IsTradelineAccount),
                           SelectSeq(accounts, IsCollectionAccount),
                           <<>>))


(***************************************************************************)
(* The reports the extractors are run on.  Each family varies one part of  *)
(* a report: the columns of one field line of an account block, the place  *)
(* of a fraud alert, text without blocks, an Original Creditor line, and   *)
(* the lines of the inquiry section.                                       *)
(***************************************************************************)
MaxColumns == 3
MaxGap == 2
MaxTrailing == 1
MaxInquiryLines == 2

\* A line of words with the same gap between them and nothing after the last.
TextLine(words, gap) ==
    Line(words, [i \in 1..Len(words) |-> IF i < Len(words) THEN gap ELSE 0])

CreditorLine == TextLine(<<<<"C", "H", "A", "S", "E">>, <<"B", "A", "N", "K">>>>, 1)
SecondCreditorLine == TextLine(<<<<"W", "E", "L", "L", "S">>, <<"F", "A", "R", "G", "O">>>>, 1)
CollectorLine == TextLine(<<<<"M", "I", "D", "L", "A", "N", "D">>, <<"F", "U", "N", "D", "I", "N", "G">>>>, 1)
HeaderLine == TextLine(<<<<"T", "r", "a", "n", "s", "U", "n", "i", "o", "n">>, <<"E", "x", "p", "e", "r", "i", "a", "n">>, <<"E", "q", "u", "i", "f", "a", "x">>>>, 2)

FieldLabels == {"status", "openDate", "creditLimit"}

LabelWords(label) ==
    CASE label = "accountNumber" -> <<<<"A", "c", "c", "o", "u", "n", "t">>, <<"#">>>>
      [] label = "status" -> <<<<"A", "c", "c", "o", "u", "n", "t">>, <<"S", "t", "a", "t", "u", "s">>>>
      [] label = "openDate" -> <<<<"D", "a", "t", "e">>, <<"O", "p", "e", "n", "e", "d">>>>
      [] label = "creditLimit" -> <<<<"C", "r", "e", "d", "i", "t">>, <<"L", "i", "m", "i", "t">>>>
      [] label = "originalCreditor" -> <<<<"O", "r", "i", "g", "i", "n", "a", "l">>, <<"C", "r", "e", "d", "i", "t", "o", "r">>>>

\* What the report prints in column k of a field: a different value in each
\* of the columns of TU, EX and EQ, but one account number.
ColumnValue(label, k) ==
    LET n == ((k - 1) % 3) + 1 IN
    CASE label = "accountNumber" -> <<"1", "2", "3", "4">>
      [] label = "status" -> <<<<"O", "p", "e", "n">>, <<"C", "l", "o", "s", "e", "d">>, <<"P", "a", "i", "d">>>>[n]
      [] label = "openDate" -> <<<<"0", "1", "/", "0", "2", "/", "2", "0", "2", "0">>, <<"0", "3", "/", "0", "4", "/", "2", "0", "2", "0">>, <<"0", "5", "/", "0", "6", "/", "2", "0", "2", "0">>>>[n]
      [] label = "creditLimit" -> <<<<"$", "5", ",", "0", "0", "0">>, <<"$", "3", ",", "0", "0", "0">>, <<"$", "1", ",", "0", "0", "0">>>>[n]
      [] label = "originalCreditor" -> <<<<"A", "C", "M", "E">>, <<"C", "I", "T", "I", "B", "A", "N", "K">>, <<"S", "E", "A", "R", "S">>>>[n]

\* A field line: the label, then a value or "--" in each column; gap spaces
\* between the columns and trailing spaces at the end.
FieldLine(label, present, gap, trailing) ==
    LET words == LabelWords(label)
        n == Len(present)
    IN  Line(words \o [k \in 1..n |-> IF present[k] THEN ColumnValue(label, k) ELSE Dashes],
             [i \in 1..(Len(words) + n) |->
                 IF i < Len(words) THEN 1
                 ELSE IF i < Len(words) + n THEN gap ELSE trailing])

AllThree == <<TRUE, TRUE, TRUE>>
FirstOnly == <<TRUE, FALSE, FALSE>>

Presences == UNION {[1..n -> BOOLEAN] : n \in 1..MaxColumns}

AccountLines ==
    {FieldLine("accountNumber", present, 2, 0) : present \in {AllThree, FirstOnly}}

\* One account block with one field line.
BlockTexts ==
    {<<CreditorLine, HeaderLine, a, FieldLine(label, present, gap, trailing)>> :
        a \in AccountLines, label \in FieldLabels, present \in Presences,
        gap \in 1..MaxGap, trailing \in 0..MaxTrailing}

\* Two account blocks.
TwoBlockTexts ==
    {<<CreditorLine, HeaderLine, FieldLine("accountNumber", AllThree, 2, 0),
       FieldLine("status", AllThree, 2, 0),
       SecondCreditorLine, FieldLine("accountNumber", present, 2, 0),
       FieldLine("openDate", AllThree, 2, 0)>> : present \in {AllThree, FirstOnly}}

\* A collection block with an Original Creditor line.
CollectionTexts ==
    {<<CollectorLine, HeaderLine, FieldLine("accountNumber", AllThree, 2, 0),
       FieldLine("originalCreditor", present, 2, 0)>> : present \in {AllThree, FirstOnly}}

\* Text without account blocks.
UnstructuredTexts ==
    { <<BlankLine>>,
      <<TextLine(<<<<"n", "o">>, <<"a", "c", "c", "o", "u", "n", "t", "s">>, <<"l", "i", "s", "t", "e", "d">>>>, 1)>>,
      <<TextLine(<<<<"C", "H", "A", "S", "E">>, <<"B", "A", "N", "K">>, <<"o", "p", "e", "n", "e", "d">>, <<"0", "1", "/", "0", "2", "/", "2", "0", "2", "0">>>>, 1)>>,
      <<CreditorLine, TextLine(<<<<"M", "I", "D", "L", "A", "N", "D">>, <<"F", "U", "N", "D", "I", "N", "G">>, <<"s", "i", "n", "c", "e">>, <<"0", "3", "/", "0", "4", "/", "2", "0", "2", "0">>>>, 1)>> }

\* One line more than the extractors of part_001 and part_004 scan for the
\* alert; the alert on one of the lines, or on none.
Filler == TextLine(<<<<"x">>>>, 1)

AlertLines ==
    { TextLine(<<<<"F", "r", "a", "u", "d">>, <<"A", "l", "e", "r", "t">>>>, 1), TextLine(<<<<"F", "R", "A", "U", "D">>, <<"A", "L", "E", "R", "T">>>>, 1) }

AlertTexts ==
    {[i \in 1..(ScannedLines + 1) |-> IF i = at THEN alert ELSE Filler] :
        at \in {1, ScannedLines, ScannedLines + 1}, alert \in AlertLines}
    \cup {[i \in 1..(ScannedLines + 1) |-> Filler]}
    \cup {<<TextLine(<<<<"I", "d", "e", "n", "t", "i", "t", "y">>, <<"T", "h", "e", "f", "t">>, <<"V", "i", "c", "t", "i", "m">>>>, 1)>>}

\* The inquiry section: a heading and one line for each inquiry.
InquiryDates == {<<"1", "1", "/", "0", "1", "/", "2", "0", "2", "4">>, <<"1", "1", "/", "0", "2", "/", "2", "0", "2", "4">>, <<"1", "0", "/", "0", "1", "/", "2", "0", "2", "6">>}

InquiryLine(date) == TextLine(<<<<"C", "I", "T", "I">>, date, <<"E", "x", "p", "e", "r", "i", "a", "n">>>>, 1)

InquiryTexts ==
    {<<TextLine(<<<<"I", "n", "q", "u", "i", "r", "i", "e", "s">>>>, 1)>> \o [i \in 1..Len(ds) |-> InquiryLine(ds[i])] :
        ds \in SeqsOf(InquiryDates, 1, MaxInquiryLines)}

Report(t, now) == [text |-> t, today |-> now]

Reports ==
    {Report(t, Midnight) :
        t \in BlockTexts \cup TwoBlockTexts \cup CollectionTexts
                \cup UnstructuredTexts \cup AlertTexts}
    \cup {Report(t, now) : t \in InquiryTexts, now \in Times}

(***************************************************************************)
(* The pipeline: a report is parsed by one of the four extractors, and the *)
(* bundles of route.js and part_004 go on to their detection engine.       *)
(***************************************************************************)
Extractors == {"route", "cli", "inline", "legacy"}

NoBundle == Bundle(<<>>, <<>>, FALSE, <<>>)

PipelineInit ==
    /\ \E r \in Reports : rawText = r.text /\ today = r.today
    /\ variant \in Extractors
    /\ data = NoBundle
    /\ pc = "parse"
    /\ groups = <<>>
    /\ g = 1
    /\ c = 1
    /\ q = 1
    /\ findings = <<>>
    /\ findingId = 1

\* route.js: parseCreditReportText(text), then runDetectionEngine
ParseRoute ==
    /\ pc = "parse"
    /\ variant = "route"
    /\ data' = parseCreditReportText("route", rawText)
    /\ pc' = "group"
    /\ UNCHANGED <<rawText, variant, today, groups, g, c, q, findings, findingId>>

\* part_004: parseCreditReportPDF, then runDetectionEngine
ParsePDF ==
    /\ pc = "parse"
    /\ variant = "cli"
    /\ data' = parseCreditReportPDF(rawText)
    /\ pc' = "group"
    /\ UNCHANGED <<rawText, variant, today, groups, g, c, q, findings, findingId>>

\* part_001: parseCreditReportText(text)
ParseInline ==
    /\ pc = "parse"
    /\ variant = "inline"
    /\ data' = parseCreditReportText("inline", rawText)
    /\ pc' = "parsed"
    /\ UNCHANGED <<rawText, variant, today, groups, g, c, q, findings, findingId>>

\* part_000: parseCreditReport(text)
ParseLegacy ==
    /\ pc = "parse"
    /\ variant = "legacy"
    /\ data' = parseCreditReport(rawText)
    /\ pc' = "parsed"
    /\ UNCHANGED <<rawText, variant, today, groups, g, c, q, findings, findingId>>

PipelineNext ==
    \/ ParseRoute
    \/ ParsePDF
    \/ ParseInline
    \/ ParseLegacy
    \/ GroupTradelines
    \/ AnalyzeGroup
    \/ AnalyzeCollection
    \/ StartInquiries
    \/ AnalyzeInquiry
    \/ Return

Pipeline == PipelineInit /\ [][PipelineNext]_vars

(***************************************************************************)
(* Vocabulary of the properties of the extractors.                         *)
(***************************************************************************)
\* The extractor has run.
Parsed == pc # "parse"

\* The accounts of the bundle.
AccountsOf(d) == d.tradelines \o d.collections

\* The lines of a block text; the report holds one block whose field line is
\* line FieldAt.
BlockLayout == <<"creditor", "header", "account", "field">>
FieldAt == Len(BlockLayout)
IsBlockText == Len(rawText) = FieldAt /\ rawText[1] \in {CreditorLine, CollectorLine}

\* The label of the field line and what its columns hold.
LabelOfLine(line) ==
    CHOOSE label \in FieldLabels \cup {"accountNumber", "originalCreditor"} :
        SubSeq(line.toks, 1, 2) = LabelWords(label)

ColumnsOfLine(line) == SubSeq(line.toks, 3, Len(line.toks))

\* Column k of the line holds a value.
HoldsValue(line, k) ==
    k <= Len(ColumnsOfLine(line)) /\ ColumnsOfLine(line)[k] # Dashes

ColumnOfBureau(b) == CHOOSE k \in 1..3 : BureauCodes[k] = b


(***************************************************************************)
(* Detection as a function of the extracted bundle and of the moment the   *)
(* engine reads the clock.                                                 *)
(***************************************************************************)
\* runDetectionEngine of route.js and part_004: the findings of the groups,
\* then of the collections, then (part_004) of the inquiries, numbered from 1.
runDetectionEngine(v, d, now) ==
    LET Of(gs) ==
            Numbered(
                Flatten([i \in 1..Len(gs) |-> GroupFindings(v, gs[i].items)])
                    \o Flatten([i \in 1..Len(d.collections) |->
                                   CollectionFindings(d.collections[i])])
                    \o (IF v = "cli"
                        THEN Flatten([i \in 1..Len(d.inquiries) |->
                                         InquiryFindings(now, d.inquiries[i])])
                        ELSE <<>>),
                1)
    IN  Once(GroupAll(<<>>, d.tradelines), Of)

\* The steps of the pipeline return what the function returns at the moment
\* the run read the clock.
StepsAgree == Returned => findings = runDetectionEngine(variant, data, today)

\* C11: extraction followed by detection gives the same finding list for the
\* same raw text at whatever moment it is run: the list a run returned for
\* the bundle extracted from the text is the list detection returns for that
\* bundle at any other moment.
C11_SameFindingsAtAnyMoment ==
    Returned => \A now \in Times : runDetectionEngine(variant, data, now) = findings

(***************************************************************************)
(* The records of an account block, read against the columns of the block. *)
(***************************************************************************)
BlockExtractors == {"inline", "cli", "legacy"}

\* The report is one block and a block extractor has returned its bundle.
BlockParsed == Parsed /\ IsBlockText /\ variant \in BlockExtractors

\* The lines of the block that hold field values: the account line and the
\* field line.
ValueLines == {FieldAt - 1, FieldAt}

\* The bureau holds a non-placeholder value on some line of the block.
Contributes(b) == \E ln \in ValueLines : HoldsValue(rawText[ln], ColumnOfBureau(b))

RecordsOf(d, b) == {i \in DOMAIN AccountsOf(d) : AccountsOf(d)[i].bureau = b}

\* C14: a block yields exactly one record for each bureau of TU, EX, EQ that
\* holds a non-placeholder value on some line of the block, and no record
\* for a bureau that holds none.
C14_OneRecordPerContributingBureau ==
    BlockParsed =>
        \A b \in Range(BureauCodes) :
            Cardinality(RecordsOf(data, b)) = IF Contributes(b) THEN 1 ELSE 0

\* What the value of column k of a field line means in a record.
ValueMeaning(label, k) ==
    CASE label = "status" -> ColumnValue("status", k)
      [] label = "openDate" -> <<2020, (2 * (((k - 1) % 3) + 1)) - 1, 2 * (((k - 1) % 3) + 1)>>
      [] label = "creditLimit" -> Num(<<5000, 3000, 1000>>[((k - 1) % 3) + 1])

\* The value of a field no column has given.
NoValue(label) == IF label = "creditLimit" THEN Null ELSE <<>>

\* The field of the field line, in the record a, is empty or is the value of
\* the column of the record's bureau.
FromOwnColumn(a) ==
    LET label == LabelOfLine(rawText[FieldAt])
        k == ColumnOfBureau(a.bureau)
    IN  \/ a[label] = NoValue(label)
        \/ HoldsValue(rawText[FieldAt], k) /\ a[label] = ValueMeaning(label, k)

\* The field of the record a is the value of the column of another bureau.
Shifted(a) ==
    LET label == LabelOfLine(rawText[FieldAt])
    IN  \E k \in 1..Len(ColumnsOfLine(rawText[FieldAt])) :
            /\ k # ColumnOfBureau(a.bureau)
            /\ HoldsValue(rawText[FieldAt], k)
            /\ a[label] = ValueMeaning(label, k)

\* C15: in every record of a block the value of a field comes from the column
\* of the record's own bureau (TU, EX, EQ from left to right), also when
\* another column holds a placeholder or is missing: the field is empty or
\* is the value of that column.
C15_ValuesFromOwnColumn ==
    BlockParsed /\ rawText[1] = CreditorLine =>
        \A i \in DOMAIN AccountsOf(data) : FromOwnColumn(AccountsOf(data)[i])

\* The string holds the placeholder.
HasDashes(s) == \E i \in 1..(Len(s) - 1) : s[i] = "-" /\ s[i + 1] = "-"

\* The text stored in a date field: a parsed date stores none.
DateText(d) == IF Len(d) = 2 THEN d[1] ELSE <<>>

\* The texts stored in a record.
StoredTexts(a) ==
    {a.status, a.accountNumberPartial, DateText(a.openDate),
     DateText(a.dateOfLastActivity), DateText(a.lastPaymentDate)}

ThreeColumns(line) == Len(ColumnsOfLine(line)) = 3

\* C16: when the field line of a block is laid out as three columns, no
\* record stores the placeholder "--" as a field value or inside one,
\* whichever column holds it.
C16_PlaceholderNeverStored ==
    BlockParsed /\ ThreeColumns(rawText[FieldAt]) =>
        \A i \in DOMAIN AccountsOf(data) :
            \A s \in StoredTexts(AccountsOf(data)[i]) : ~HasDashes(s)

(***************************************************************************)
(* The fallback of part_000.                                               *)
(***************************************************************************)
LegacyParsed == Parsed /\ variant = "legacy"

\* The records of the bundle, and those either pass makes of the raw text.
Output == Range(AccountsOf(data))
StructuredPass == Range(StructuredAccounts(rawText))
FallbackPass == Range(simpleAccountExtraction(rawText))

C17_StructuredKept == LegacyParsed /\ StructuredPass # {} /\ FallbackPass # {}

\* The fields of a bundle and of a record that hold report data.
BundleDataFields == {"client", "tradelines", "collections", "hasInquiries", "inquiries"}
RecordDataFields ==
    {"id", "creditorName", "accountNumberPartial", "bureau", "status", "openDate",
     "dateOfFirstDelinquency", "dateOfLastActivity", "lastPaymentDate", "creditLimit",
     "currentBalance", "isCollection", "collectorName", "originalCreditor", "isMedical"}

\* The records of the bundle were made up from names found anywhere in the
\* text: by the fallback of part_000, or by route.js, which has no other way.
Synthesized ==
    /\ Parsed
    /\ Output # {}
    /\ \/ variant = "legacy" /\ StructuredPass = {}
       \/ variant = "route"

\* The bundle, or each of its records, has a field beside the report data.
Marked ==
    \/ DOMAIN data \ BundleDataFields # {}
    \/ \A a \in Output : DOMAIN a \ RecordDataFields # {}

\* C18: when the records were synthesized, the bundle or its records carry a
\* marker (a confidence or mode field) that structured output does not carry
\* with the same value, so that the output alone tells the two apart.
C18_SynthesizedIsMarked == Synthesized => Marked

(***************************************************************************)
(* The fraud flag of the client.                                           *)
(***************************************************************************)
\* The letters of "fraud" in either case, in order.
FraudLetters == <<{"f", "F"}, {"r", "R"}, {"a", "A"}, {"u", "U"}, {"d", "D"}>>

\* The word has "fraud" in it, in any mix of cases.
SpellsFraud(word) ==
    \E at \in 0..(Len(word) - Len(FraudLetters)) :
        \A k \in 1..Len(FraudLetters) : word[at + k] \in FraudLetters[k]

\* "fraud" occurs on some line of the raw text.
MentionsFraud ==
    \E ln \in 1..Len(rawText) :
        \E t \in 1..Len(rawText[ln].toks) : SpellsFraud(rawText[ln].toks[t])

\* C19: the fraud flag of the extracted client is true if and only if
\* "fraud" occurs, in any mix of cases, anywhere in the raw text, also on a
\* line after the first 100 lines.
C19_FraudFlagFromWholeText == Parsed => (data.client.idTheft <=> MentionsFraud)

(***************************************************************************)
(* The Original Creditor line of a collection block.                       *)
(***************************************************************************)
\* The report is one block of a collector with an Original Creditor line,
\* and a block extractor has returned its bundle.
CollectorBlockParsed ==
    /\ BlockParsed
    /\ rawText[1] = CollectorLine
    /\ LabelOfLine(rawText[FieldAt]) = "originalCreditor"

\* The bureau's column of the Original Creditor line holds a name.
NamesOriginalCreditor(b) == HoldsValue(rawText[FieldAt], ColumnOfBureau(b))

\* A finding that the original creditor of the bureau's record is missing.
MissingOCFindings(b) ==
    {i \in DOMAIN findings :
        findings[i].type = "MISSING_OC" /\ findings[i].bureausAffected = <<b>>}

\* C20: Original Creditor is a recognized label: the collection record of a
\* bureau whose column of the Original Creditor line holds a name carries
\* that name in originalCreditor, and detection raises no MISSING_OC finding
\* for it.
C20_OriginalCreditorRecognized ==
    CollectorBlockParsed =>
        /\ \A i \in DOMAIN data.collections :
               NamesOriginalCreditor(data.collections[i].bureau) =>
                   data.collections[i].originalCreditor =
                       ColumnValue("originalCreditor",
                                   ColumnOfBureau(data.collections[i].bureau))
        /\ Returned =>
               \A b \in Range(BureauCodes) :
                   NamesOriginalCreditor(b) => MissingOCFindings(b) = {}


(***************************************************************************)
(* The conversions of the extractors, applied to one string: parseDate of   *)
(* each extractor, parseNumber of part_001 and part_004, parseAmount of     *)
(* part_000.  A case is a string with the value it is written to mean.      *)
(***************************************************************************)
Case(kind, str, means) == [kind |-> kind, str |-> str, means |-> means]

\* A month and a day as they are written, with or without the leading zero.
WrittenMonths == {<<1, <<"1">>>>, <<1, <<"0", "1">>>>, <<12, <<"1", "2">>>>}
WrittenDays == {<<2, <<"2">>>>, <<2, <<"0", "2">>>>, <<31, <<"3", "1">>>>}

\* M/D/YYYY and M/YYYY
ShapedDates ==
    {Case("date", m[2] \o <<"/">> \o d[2] \o <<"/", "2", "0", "2", "0">>, <<2020, m[1], d[1]>>) :
        m \in WrittenMonths, d \in WrittenDays}
    \cup {Case("date", m[2] \o <<"/", "2", "0", "2", "0">>, <<2020, m[1], 1>>) : m \in WrittenMonths}

\* Strings of another shape: text around a date, other notations, no date.
OtherDates ==
    {Case("date", str, <<>>) :
        str \in {<<>>, <<"-", "-">>, <<"N", "/", "A">>, <<"J", "a", "n", " ", "2", "0", "2", "0">>, <<"2", "0", "2", "0", "-", "0", "1", "-", "0", "2">>, <<"0", "1", "/", "0", "2", "/", "2", "0">>,
                 <<"o", "p", "e", "n", "e", "d", " ", "0", "1", "/", "0", "2", "/", "2", "0", "2", "0">>, <<"0", "1", "/", "0", "2", "/", "2", "0", "2", "0", " ", "1", "2", ":", "0", "0">>, <<"0", "1", " ", "/", " ", "0", "2", " ", "/", " ", "2", "0", "2", "0">>,
                 <<"s", "i", "n", "c", "e", " ", "0", "3", "/", "2", "0", "2", "0">>, <<"1", "/", "2", "/", "2", "0", "2", "0", "5">>}}

\* Amounts: what is left without '$', ',' and white space is a number.
NumericAmounts ==
    {Case("amount", <<"$", "1", ",", "2", "3", "4">>, Num(1234)), Case("amount", <<"1", "2", "3", "4">>, Num(1234)),
     Case("amount", <<"$", " ", "5", ",", "0", "0", "0", " ">>, Num(5000)), Case("amount", <<"0">>, Num(0)),
     Case("amount", <<"$", "0">>, Num(0)), Case("amount", <<"1", "2", ",", "3", "4", "5", ",", "6", "7", "8">>, Num(12345678))}

\* Amounts: what is left is not a number.
OtherAmounts ==
    {Case("amount", str, Null) :
        str \in {<<>>, <<"-", "-">>, <<"N", "/", "A">>, <<"1", "2", "a", "b", "c">>, <<"$">>, <<"5", ",", "0", "0", "0", " ", "U", "S", "D">>, <<"a", "b", "c", "1", "2">>, <<"$", " ", ",", " ">>}}

Cases == ShapedDates \cup OtherDates \cup NumericAmounts \cup OtherAmounts

\* route.js converts no amount.
AmountExtractors == {"inline", "cli", "legacy"}

ConversionsInit ==
    /\ rawText \in Cases
    /\ variant \in Extractors
    /\ rawText.kind = "amount" => variant \in AmountExtractors
    /\ data = <<>>
    /\ pc = "convert"
    /\ today = Midnight
    /\ groups = <<>>
    /\ g = 1
    /\ c = 1
    /\ q = 1
    /\ findings = <<>>
    /\ findingId = 1

\* parseDate(dateStr) of the extractor
ConvertDate ==
    /\ pc = "convert"
    /\ rawText.kind = "date"
    /\ data' = parseDate(variant, rawText.str)
    /\ pc' = "converted"
    /\ UNCHANGED <<rawText, variant, today, groups, g, c, q, findings, findingId>>

\* parseNumber(numStr) of part_001 and part_004, parseAmount(amtStr) of part_000
ConvertAmount ==
    /\ pc = "convert"
    /\ rawText.kind = "amount"
    /\ data' = IF variant = "legacy" THEN parseAmount(rawText.str)
               ELSE parseNumber(rawText.str)
    /\ pc' = "converted"
    /\ UNCHANGED <<rawText, variant, today, groups, g, c, q, findings, findingId>>

ConversionsNext == ConvertDate \/ ConvertAmount

Conversions == ConversionsInit /\ [][ConversionsNext]_vars

Converted(kind) == pc = "converted" /\ rawText.kind = kind

\* C21: parseDate of every extractor gives the date an M/D/YYYY or M/YYYY
\* string is written to mean (year, month and day, the day 1 for M/YYYY) and
\* the empty string for a string of any other shape, text that contains a
\* date included.
C21_DateOrEmpty == Converted("date") => data = rawText.means

\* C22: amount normalization strips '$', ',' and white space and gives the
\* integer when what is left is a number, and null (not 0, not the number of
\* a leading part) when it is not.
C22_AmountOrNull == Converted("amount") => data = rawText.means

(***************************************************************************)
(* The balance of a record.                                                *)
(***************************************************************************)
\* Some line of the raw text has a "Balance" label.
MentionsBalance ==
    \E ln \in 1..Len(rawText) :
        \E t \in 1..Len(rawText[ln].toks) : rawText[ln].toks[t] = <<"B", "a", "l", "a", "n", "c", "e">>

\* C23: every record of the extracted bundle has an integer currentBalance,
\* which is 0, not null, when the report gives no balance for the account.
C23_BalanceDefaultsToZero ==
    Parsed /\ ~MentionsBalance =>
        \A i \in DOMAIN AccountsOf(data) : AccountsOf(data)[i].currentBalance = Num(0)

(***************************************************************************)
(* Two audit runs that overlap in time.  The runs are two invocations of   *)
(* the command line pipeline of part_004 (two processes, which share the   *)
(* file system) or two POST requests of route.js (two calls of an async    *)
(* function in one process, which interleave at every await).  Under this  *)
(* specification rawText, data, pc and findings hold one value for each    *)
(* run and groups holds the text file of part_004.                         *)
(***************************************************************************)
Runs == {1, 2}

\* the file at the fixed path '/tmp/credit_report_text.txt' of part_004
textPath == groups

OverlapTexts == TwoBlockTexts \cup CollectionTexts \cup UnstructuredTexts

Front == {"cli", "route"}

OverlapInit ==
    /\ rawText \in {r \in [Runs -> OverlapTexts] : r[1] # r[2]}
    /\ variant \in Front
    /\ data = [p \in Runs |-> <<>>]
    /\ pc = [p \in Runs |-> "start"]
    /\ textPath = <<>>
    /\ findings = [p \in Runs |-> <<>>]
    /\ today = Midnight
    /\ g = 1
    /\ c = 1
    /\ q = 1
    /\ findingId = 1

\* What a run returns: the bundle and the findings.
Answer(v, bundle, now) ==
    [client |-> bundle.client,
     records |-> AccountsOf(bundle),
     findings |-> runDetectionEngine(v, bundle, now)]

\* part_004: execSync(`pdftotext -layout "${pdfPath}" "${textPath}"`)
Pdftotext(p) ==
    /\ variant = "cli"
    /\ pc[p] = "start"
    /\ textPath' = rawText[p]
    /\ pc' = [pc EXCEPT ![p] = "extracted"]
    /\ UNCHANGED <<rawText, variant, data, today, g, c, q, findings, findingId>>

\* part_004: const content = fs.readFileSync(textPath, 'utf8')
ReadText(p) ==
    /\ variant = "cli"
    /\ pc[p] = "extracted"
    /\ data' = [data EXCEPT ![p] = textPath]
    /\ pc' = [pc EXCEPT ![p] = "read"]
    /\ UNCHANGED <<rawText, variant, today, groups, g, c, q, findings, findingId>>

\* part_004: the rest of parseCreditReportPDF, then runDetectionEngine
AuditText(p) ==
    /\ variant = "cli"
    /\ pc[p] = "read"
    /\ findings' = [findings EXCEPT ![p] = Answer("cli", parseCreditReportPDF(data[p]), today)]
    /\ pc' = [pc EXCEPT ![p] = "done"]
    /\ UNCHANGED <<rawText, variant, data, today, groups, g, c, q, findingId>>

\* route.js POST: await request.formData(); await file.arrayBuffer()
ReadUpload(p) ==
    /\ variant = "route"
    /\ pc[p] = "start"
    /\ data' = [data EXCEPT ![p] = rawText[p]]
    /\ pc' = [pc EXCEPT ![p] = "read"]
    /\ UNCHANGED <<rawText, variant, today, groups, g, c, q, findings, findingId>>

\* route.js POST: extractTextFromPDF, parseCreditReportText,
\* runDetectionEngine, up to the next await
AuditUpload(p) ==
    /\ variant = "route"
    /\ pc[p] = "read"
    /\ findings' = [findings EXCEPT ![p] = Answer("route", parseCreditReportText("route", data[p]), today)]
    /\ pc' = [pc EXCEPT ![p] = "done"]
    /\ UNCHANGED <<rawText, variant, data, today, groups, g, c, q, findingId>>

OverlapNext ==
    \E p \in Runs :
        \/ Pdftotext(p)
        \/ ReadText(p)
        \/ AuditText(p)
        \/ ReadUpload(p)
        \/ AuditUpload(p)

Overlap == OverlapInit /\ [][OverlapNext]_vars

\* What the run returns when it is executed alone.
Alone(p) ==
    Answer(variant,
           IF variant = "cli" THEN parseCreditReportPDF(rawText[p])
                              ELSE parseCreditReportText("route", rawText[p]),
           today)

\* C24: of two audit runs that overlap, each returns the client, records and
\* findings it returns when it is executed alone, whatever the interleaving
\* of their steps.
C24_RunsDoNotInterfere ==
    \A p \in Runs : pc[p] = "done" => findings[p] = Alone(p)

(***************************************************************************)
(* The documents of an audit: the detection run of Spec, followed by the   *)
(* generation of the dispute letters.  The command line pipeline writes    *)
(* the findings to audit_data.json and runs generateAllDocuments, which    *)
(* writes the letters into the directory Dispute_Letters; the deployed     *)
(* application answers GET /api/download by appending the letters to a     *)
(* zip archive.  Under this specification groups holds, once the documents *)
(* are generated, the names of the files in the order they were written    *)
(* or appended, and q the letter count.                                    *)
(***************************************************************************)
\* const generatedFiles = [] / archive.append(...)
generatedFiles == groups
letterCount == q

TypeName ==
    [t \in TradelineTypes \cup CollectionTypes \cup InquiryTypes |->
        CASE t = "DATE_MISMATCH_OPEN" -> <<"D", "A", "T", "E", "_", "M", "I", "S", "M", "A", "T", "C", "H", "_", "O", "P", "E", "N">>
          [] t = "DATE_MISMATCH_DLA" -> <<"D", "A", "T", "E", "_", "M", "I", "S", "M", "A", "T", "C", "H", "_", "D", "L", "A">>
          [] t = "DATE_MISMATCH_PAYMENT" -> <<"D", "A", "T", "E", "_", "M", "I", "S", "M", "A", "T", "C", "H", "_", "P", "A", "Y", "M", "E", "N", "T">>
          [] t = "STATUS_MISMATCH" -> <<"S", "T", "A", "T", "U", "S", "_", "M", "I", "S", "M", "A", "T", "C", "H">>
          [] t = "LIMIT_MISMATCH" -> <<"L", "I", "M", "I", "T", "_", "M", "I", "S", "M", "A", "T", "C", "H">>
          [] t = "MISSING_OC" -> <<"M", "I", "S", "S", "I", "N", "G", "_", "O", "C">>
          [] t = "MISSING_DOFD" -> <<"M", "I", "S", "S", "I", "N", "G", "_", "D", "O", "F", "D">>
          [] t = "INQUIRY_EXPIRED" -> <<"I", "N", "Q", "U", "I", "R", "Y", "_", "E", "X", "P", "I", "R", "E", "D">>]

TypeChars == 15

\* JSON.parse(JSON.stringify(findings)): an undefined entry of an array is
\* written as null.
JsonBureau(b) == IF b = "undefined" THEN "null" ELSE b

\* `Dispute_${bureau}_Finding${finding.id}_${finding.type.substring(0, 15)}.docx`
LetterFilename(bureau, finding) ==
    [dir |-> "Dispute_Letters", bureau |-> JsonBureau(bureau), finding |-> finding.id,
     type |-> Substring0(TypeName[finding.type], TypeChars)]

Document(name) == [dir |-> "", bureau |-> "", finding |-> 0, type |-> name]

\* for (const finding of findings) for (const bureau of (finding.bureausAffected || []))
LettersOf(fs) ==
    Flatten([i \in 1..Len(fs) |->
                [k \in 1..Len(fs[i].bureausAffected) |->
                    LetterFilename(fs[i].bureausAffected[k], fs[i])]])

\* generateAllDocuments(auditData, outputDir)
generateAllDocuments ==
    /\ pc = "done"
    /\ variant = "cli"
    /\ generatedFiles' =
           <<Document(<<"E", "x", "e", "c", "u", "t", "i", "v", "e", "_", "S", "u", "m", "m", "a", "r", "y">>), Document(<<"D", "e", "t", "a", "i", "l", "e", "d", "_", "A", "u", "d", "i", "t", "_", "R", "e", "p", "o", "r", "t">>),
             Document(<<"A", "c", "t", "i", "o", "n", "_", "P", "l", "a", "n">>)>> \o LettersOf(findings)
    /\ letterCount' = Len(LettersOf(findings))
    /\ pc' = "documents"
    /\ UNCHANGED <<rawText, variant, data, today, g, c, findings, findingId>>

DownloadTypes == {"letters", "all"}

\* GET /api/download?type=letters and type=all
GET ==
    /\ pc = "done"
    /\ variant = "route"
    /\ \E type \in DownloadTypes :
           generatedFiles' =
               LettersOf(findings)
                   \o (IF type = "all"
                       THEN <<Document(<<"E", "x", "e", "c", "u", "t", "i", "v", "e", "_", "S", "u", "m", "m", "a", "r", "y">>), Document(<<"D", "e", "t", "a", "i", "l", "e", "d", "_", "R", "e", "p", "o", "r", "t">>),
                              Document(<<"A", "c", "t", "i", "o", "n", "_", "P", "l", "a", "n">>)>>
                       ELSE <<>>)
    /\ letterCount' = Len(LettersOf(findings))
    /\ pc' = "documents"
    /\ UNCHANGED <<rawText, variant, data, today, g, c, findings, findingId>>

DocumentsNext ==
    \/ GroupTradelines
    \/ AnalyzeGroup
    \/ AnalyzeCollection
    \/ InquiriesUndefined
    \/ StartInquiries
    \/ AnalyzeInquiry
    \/ Return
    \/ generateAllDocuments
    \/ GET

Documents == Init /\ [][DocumentsNext]_vars

\* The letter files that exist once the documents are generated: a file
\* written, or an entry appended, under a name is one file of that name.
LetterFiles == {f \in Range(generatedFiles) : f.dir = "Dispute_Letters"}

BureausListed == Len(Flatten([i \in 1..Len(findings) |-> findings[i].bureausAffected]))

\* C25: the letters are stored under distinct file names, one for each
\* finding and each bureau listed in its bureausAffected: the number of
\* letter files is the sum of the lengths of bureausAffected over the
\* findings, also when a finding lists a bureau twice.
C25_OneLetterFilePerFindingAndBureau ==
    pc = "documents" => Cardinality(LetterFiles) = BureausListed

(***************************************************************************)
(* The groups of the deployed route.                                       *)
(***************************************************************************)
\* The deployed route has returned the findings of the report.
RouteReturned == variant = "route" /\ Returned

\* The records of the group share their status and their credit limit.
Uniform(items) ==
    \A i, j \in 1..Len(items) :
        items[i].status = items[j].status /\ items[i].creditLimit = items[j].creditLimit

\* C26: the findings the deployed route returns for a text hold no
\* STATUS_MISMATCH and no LIMIT_MISMATCH finding: in every tradeline group
\* built from its bundle all the records have the same status and the same
\* creditLimit.
C26_NoStatusOrLimitMismatch ==
    RouteReturned =>
        /\ \A k \in 1..Len(groups) : Uniform(groups[k].items)
        /\ \A i \in 1..Len(findings) :
               findings[i].type \notin {"STATUS_MISMATCH", "LIMIT_MISMATCH"}

\* The route returned for a text with two candidates of different status and
\* limit, reported by several bureaus.
C26_Witness ==
    /\ RouteReturned
    /\ \E k \in 1..Len(groups) : Len(groups[k].items) >= 2
    /\ ~Uniform(data.tradelines)

(***************************************************************************)
(* The detection engine of part_000 and its pipeline: parseCreditReport,   *)
(* then runDetectionEngine.  The engine differs from that of route.js in   *)
(* the length of the normalized creditor name, in the date rules, which    *)
(* leave both loops at the first finding, and in its findings, which have  *)
(* no claimIndicator.                                                      *)
(***************************************************************************)
LegacyNormLen == 12

\* normalizeCreditor(t.creditorName) + '_' + (t.accountNumberPartial || '').slice(-4)
LegacyKey(t) ==
    (IF t.creditorName = <<>> THEN <<>>
     ELSE Substring0(SelectSeq(ToUpperCase(t.creditorName), IsUpperOrDigit), LegacyNormLen))
        \o <<"_">> \o Last4(t)

\* Variation of LegacyGroupAll: every record is a group of its own.
RECURSIVE LegacyGroupEach(_, _)
LegacyGroupEach(gs, ts) ==
    IF ts = <<>> THEN gs
    ELSE LegacyGroupEach(Append(gs, [key |-> LegacyKey(Head(ts)), items |-> <<Head(ts)>>]), Tail(ts))

\* if (!groups[key]) groups[key] = []; groups[key].push(t)
RECURSIVE LegacyGroupAll(_, _)
LegacyGroupAll(gs, ts) ==
    IF ts = <<>> THEN gs
    ELSE LET t == Head(ts)
             key == LegacyKey(t)
         IN  LegacyGroupAll(
                 IF \E i \in 1..Len(gs) : gs[i].key = key
                 THEN LET k == CHOOSE j \in 1..Len(gs) : gs[j].key = key
                      IN  [gs EXCEPT ![k].items = Append(@, t)]
                 ELSE Append(gs, [key |-> key, items |-> <<t>>]),
                 Tail(ts))

\* A date rule of part_000: daysDiff is null for a string that is no date,
\* the test is (diff && diff > 30), and the finding of the first pair ends
\* both loops.
LegacyDateRule(items, field, type) ==
    LET first == DateRule("route", items, field, type, "high", 7)
    IN  IF first = <<>> THEN <<>> ELSE <<first[1]>>

\* The findings of part_000 have no claimIndicator.
WithoutClaimIndicator(fs) == [i \in 1..Len(fs) |-> [fs[i] EXCEPT !.claimIndicator = "undefined"]]

\* runDetectionEngine(data) of part_000
LegacyDetectionEngine(d) ==
    LET Of(items) ==
            IF Len(items) < 2 THEN <<>>
            ELSE LegacyDateRule(items, "openDate", "DATE_MISMATCH_OPEN")
                 \o LegacyDateRule(items, "dateOfLastActivity", "DATE_MISMATCH_DLA")
                 \o StatusRule(items)
                 \o LimitRule("route", items)
        All(gs) ==
            Numbered(
                WithoutClaimIndicator(
                    Flatten([i \in 1..Len(gs) |-> Of(gs[i].items)])
                        \o Flatten([i \in 1..Len(d.collections) |->
                                       CollectionFindings(d.collections[i])])),
                1)
    IN  Once(LegacyGroupAll(<<>>, d.tradelines), All)

LegacyInit ==
    /\ \E r \in Reports : rawText = r.text /\ today = r.today
    /\ variant = "legacy"
    /\ data = NoBundle
    /\ pc = "parse"
    /\ groups = <<>>
    /\ g = 1
    /\ c = 1
    /\ q = 1
    /\ findings = <<>>
    /\ findingId = 1

\* part_000 POST: var findings = runDetectionEngine(data)
DetectLegacy ==
    /\ pc = "parsed"
    /\ findings' = LegacyDetectionEngine(data)
    /\ findingId' = Len(findings') + 1
    /\ pc' = "detected"
    /\ UNCHANGED <<rawText, variant, data, today, groups, g, c, q>>

LegacyNext == ParseLegacy \/ DetectLegacy

Legacy == LegacyInit /\ [][LegacyNext]_vars

\* The fallback made the records of the bundle and the detector has run.
FallbackDetected ==
    pc = "detected" /\ FallbackRuns(StructuredAccounts(rawText))

\* The candidate creditors of the fallback: the item names of their records.
Candidates(accounts) ==
    {ItemName(accounts[i].creditorName, Last4(accounts[i])) : i \in 1..Len(accounts)}

FindingsOf(type, item) ==
    {i \in 1..Len(findings) : findings[i].type = type /\ findings[i].item = item}

\* C27: when the fallback of parseCreditReport is taken, the detector emits,
\* for every candidate that is no collection, exactly one STATUS_MISMATCH
\* finding, whose bureausAffected is [TU, EX, EQ], and no LIMIT_MISMATCH
\* finding, and for every collection candidate one MISSING_OC and one
\* MISSING_DOFD finding for each of the three bureaus.
C27_FallbackFindings ==
    FallbackDetected =>
        /\ \A item \in Candidates(data.tradelines) :
               /\ Cardinality(FindingsOf("STATUS_MISMATCH", item)) = 1
               /\ \A i \in FindingsOf("STATUS_MISMATCH", item) :
                      findings[i].bureausAffected = <<"TU", "EX", "EQ">>
               /\ FindingsOf("LIMIT_MISMATCH", item) = {}
        /\ \A item \in Candidates(data.collections) :
               \A type \in CollectionTypes :
                   /\ Cardinality(FindingsOf(type, item)) = Cardinality(Bureaus)
                   /\ \A b \in Bureaus :
                          \E i \in FindingsOf(type, item) : findings[i].bureausAffected = <<b>>
        /\ \A i \in 1..Len(findings) :
               /\ findings[i].type # "LIMIT_MISMATCH"
               /\ findings[i].type = "STATUS_MISMATCH" => findings[i].item \in Candidates(data.tradelines)
               /\ findings[i].type \in CollectionTypes => findings[i].item \in Candidates(data.collections)

\* The fallback made a candidate that is no collection and a collection
\* candidate.
C27_Witness ==
    /\ FallbackDetected
    /\ Candidates(data.tradelines) # {}
    /\ Candidates(data.collections) # {}

(***************************************************************************)
(* The page of the application (page.js): the state of the component, the  *)
(* handler of the audit button, which is suspended at its awaits, and the  *)
(* interval timers it has started.  Under this specification pc holds the  *)
(* stage, rawText the file, c the step of progress, data the error,        *)
(* findings the audit results, q the await the handler is suspended at,    *)
(* groups the timers started so far (the currentStep of each and whether   *)
(* it has been cleared) and g the number of attempts.                      *)
(***************************************************************************)
stage == pc
file == rawText
progress == c
error == data
auditResults == findings
awaiting == q
timers == groups
attempts == g

MaxAttempts == 2

\* const progressSteps = [ ... ]: the steps 1 to 6
progressSteps == <<1, 2, 3, 4, 5, 6>>

PageInit ==
    /\ stage = "upload"
    /\ file = "pdf"
    /\ progress = 0
    /\ error = "null"
    /\ auditResults = "null"
    /\ awaiting = "none"
    /\ timers = <<>>
    /\ attempts = 0
    /\ variant = "page"
    /\ today = Midnight
    /\ findingId = 1

\* handleStartAudit, up to await fetch('/api/audit', ...)
handleStartAudit ==
    /\ stage = "upload"
    /\ file # "null"
    /\ awaiting = "none"
    /\ attempts < MaxAttempts
    /\ attempts' = attempts + 1
    /\ stage' = "processing"
    /\ progress' = progressSteps[1]
    /\ timers' = Append(timers, [currentStep |-> 0, cleared |-> FALSE])
    /\ awaiting' = "fetch"
    /\ UNCHANGED <<rawText, variant, data, today, findings, findingId>>

\* The callback of setInterval, every 600 ms until the timer is cleared.
ProgressTick ==
    \E t \in 1..Len(timers) :
        /\ ~timers[t].cleared
        /\ timers[t].currentStep < Len(progressSteps)
        /\ progress' = progressSteps[timers[t].currentStep + 1]
        /\ timers' = [timers EXCEPT ![t].currentStep = @ + 1]
        /\ UNCHANGED <<rawText, variant, data, today, pc, g, q, findings, findingId>>

\* The fetch is fulfilled: clearInterval(progressInterval), then the handler
\* awaits response.json().
FetchFulfilled ==
    /\ awaiting = "fetch"
    /\ timers' = [timers EXCEPT ![Len(timers)].cleared = TRUE]
    /\ \E ok \in BOOLEAN : awaiting' = IF ok THEN "results" ELSE "errorData"
    /\ UNCHANGED <<rawText, variant, data, today, pc, g, c, findings, findingId>>

\* The fetch is rejected: the catch block.
FetchRejected ==
    /\ awaiting = "fetch"
    /\ error' = "Failed to fetch"
    /\ stage' = "upload"
    /\ awaiting' = "none"
    /\ UNCHANGED <<rawText, variant, today, groups, g, c, findings, findingId>>

\* response.json() of a response that is ok: setAuditResults(results); setStage('results')
ResultsRead ==
    /\ awaiting = "results"
    /\ auditResults' = "results"
    /\ stage' = "results"
    /\ awaiting' = "none"
    /\ UNCHANGED <<rawText, variant, data, today, groups, g, c, findingId>>

\* response.json() of a response that is not ok, or a body that is no JSON:
\* the error is thrown and the catch block runs.
AuditFailed ==
    /\ awaiting \in {"results", "errorData"}
    /\ error' = "Audit failed"
    /\ stage' = "upload"
    /\ awaiting' = "none"
    /\ UNCHANGED <<rawText, variant, today, groups, g, c, findings, findingId>>

\* handleReset, the button of the results
handleReset ==
    /\ stage = "results"
    /\ auditResults # "null"
    /\ stage' = "upload"
    /\ file' = "null"
    /\ progress' = 0
    /\ auditResults' = "null"
    /\ error' = "null"
    /\ UNCHANGED <<variant, today, groups, g, q, findingId>>

\* handleFileSelect(selectedFile)
handleFileSelect ==
    /\ stage = "upload"
    /\ \E selectedFile \in {"pdf", "png"} :
           IF selectedFile = "pdf"
           THEN file' = selectedFile /\ error' = "null"
           ELSE error' = "Please upload a PDF file" /\ UNCHANGED rawText
    /\ UNCHANGED <<variant, today, pc, groups, g, c, q, findings, findingId>>

PageNext ==
    \/ handleStartAudit
    \/ ProgressTick
    \/ FetchFulfilled
    \/ FetchRejected
    \/ ResultsRead
    \/ AuditFailed
    \/ handleReset
    \/ handleFileSelect

Page == PageInit /\ [][PageNext]_vars

\* The audit attempt has settled: the handler has finished and the stage is
\* no longer 'processing'.
Settled == attempts > 0 /\ awaiting = "none" /\ stage # "processing"

\* C29: once the audit attempt has settled, with the stage 'results' or
\* back at 'upload' with an error, also when the fetch was rejected, the
\* progress timer of the attempt has been cleared, so that no timer callback
\* updates progress afterwards.
C29_TimerClearedWhenSettled ==
    Settled => \A t \in 1..Len(timers) : timers[t].cleared


(***************************************************************************)
(* The text parser of src/lib/parseCreditReport.js.  Under the             *)
(* specification Library rawText is the sequence of the lines of the text, *)
(* each a string.                                                          *)
(***************************************************************************)
\* s has the word w (given in lower case) at position i, whatever the case.
HasAt(s, i, w) == i >= 1 /\ i + Len(w) - 1 <= Len(s) /\ ToLowerCase(SubSeq(s, i, i + Len(w) - 1)) = w

\* /w/i.test(s)
Test(s, w) == \E i \in 1..Len(s) : HasAt(s, i, w)

\* The length of the longest run of characters of a class that starts at p.
RunLen(s, p, In(_)) ==
    Min({k \in 0..(Len(s) - p + 1) : p + k > Len(s) \/ ~In(s[p + k])})

\* [:\s]
IsSep(ch) == ch = ":" \/ IsWhite(ch)

NoCapture == [ok |-> FALSE, text |-> <<>>]
Captured(text) == [ok |-> TRUE, text |-> text]

\* [:\s]+(.+) at p: the separators, as many as leave a character to capture,
\* then the rest of the line.
CaptureRest(s, p) ==
    LET seps == RunLen(s, p, IsSep) IN
    IF seps >= 1 /\ p + seps <= Len(s) THEN Captured(SubSeq(s, p + seps, Len(s)))
    ELSE IF seps >= 2 THEN Captured(<<s[Len(s)]>>)
    ELSE NoCapture

\* The match of the leftmost position of a set of positions that has one.
Leftmost(positions, At(_)) ==
    LET hits == {i \in positions : At(i).ok} IN
    IF hits = {} THEN NoCapture ELSE At(Min(hits))

\* line.match(/(?:Creditor|Company)(?:\s+Name)?[:\s]+(.+)/i)
credMatch(line) ==
    LET After(p) ==
            LET white == RunLen(line, p, IsWhite)
                named == IF white >= 1 /\ HasAt(line, p + white, <<"n", "a", "m", "e">>)
                         THEN CaptureRest(line, p + white + Len(<<"n", "a", "m", "e">>))
                         ELSE NoCapture
            IN  IF named.ok THEN named ELSE CaptureRest(line, p)
        At(i) == IF HasAt(line, i, <<"c", "r", "e", "d", "i", "t", "o", "r">>) THEN After(i + Len(<<"c", "r", "e", "d", "i", "t", "o", "r">>))
                 ELSE IF HasAt(line, i, <<"c", "o", "m", "p", "a", "n", "y">>) THEN After(i + Len(<<"c", "o", "m", "p", "a", "n", "y">>))
                 ELSE NoCapture
    IN  Leftmost(1..Len(line), At)

\* line.match(/Status[:\s]+(.+)/i)
statMatch(line) ==
    LET At(i) == IF HasAt(line, i, <<"s", "t", "a", "t", "u", "s">>)
                 THEN CaptureRest(line, i + Len(<<"s", "t", "a", "t", "u", "s">>)) ELSE NoCapture
    IN  Leftmost(1..Len(line), At)

\* line.match(/Original\s+Creditor[:\s]+(.+)/i)
ocMatch(line) ==
    LET At(i) ==
            LET p == i + Len(<<"o", "r", "i", "g", "i", "n", "a", "l">>)
                white == RunLen(line, p, IsWhite)
            IN  IF HasAt(line, i, <<"o", "r", "i", "g", "i", "n", "a", "l">>) /\ white >= 1
                       /\ HasAt(line, p + white, <<"c", "r", "e", "d", "i", "t", "o", "r">>)
                THEN CaptureRest(line, p + white + Len(<<"c", "r", "e", "d", "i", "t", "o", "r">>))
                ELSE NoCapture
    IN  Leftmost(1..Len(line), At)

\* [\dX\*] under the flag i
IsNumberChar(ch) == IsDigit(ch) \/ ch \in {"X", "x", "*"}
IsWhiteOrHash(ch) == IsWhite(ch) \/ ch = "#"
IsMask(ch) == ch \in {"X", "*"}
NotMask(ch) == ~IsMask(ch)

\* line.match(/Account[\s#]*[:\s]*([\dX\*]+)/i)
acctMatch(line) ==
    LET At(i) ==
            LET p == i + Len(<<"a", "c", "c", "o", "u", "n", "t">>)
                a == RunLen(line, p, IsWhiteOrHash)
                b == RunLen(line, p + a, IsSep)
                n == RunLen(line, p + a + b, IsNumberChar)
            IN  IF HasAt(line, i, <<"a", "c", "c", "o", "u", "n", "t">>) /\ n >= 1
                THEN Captured(SubSeq(line, p + a + b, p + a + b + n - 1))
                ELSE NoCapture
    IN  Leftmost(1..Len(line), At)

\* The lines of the text joined by "\n".
RECURSIVE JoinText(_)
JoinText(lines) ==
    IF lines = <<>> THEN <<>>
    ELSE IF Len(lines) = 1 THEN lines[1]
    ELSE lines[1] \o <<"\n">> \o JoinText(Tail(lines))

IsLetterOrWhite(ch) == IsLetter(ch) \/ IsWhite(ch)

\* rawText.match(/Name[:\s]+([A-Z\s]+)/i)
clientMatch(text) ==
    LET At(i) ==
            LET p == i + Len(<<"n", "a", "m", "e">>)
                seps == RunLen(text, p, IsSep)
                ks == {k \in 1..seps : RunLen(text, p + k, IsLetterOrWhite) >= 1}
            IN  IF HasAt(text, i, <<"n", "a", "m", "e">>) /\ ks # {}
                THEN LET k == CHOOSE x \in ks : \A y \in ks : y <= x
                     IN  Captured(SubSeq(text, p + k, p + k + RunLen(text, p + k, IsLetterOrWhite) - 1))
                ELSE NoCapture
    IN  Leftmost(1..Len(text), At)

StateLetters == 2

\* rawText.match(/State[:\s]+([A-Z]{2})/i)
stateMatch(text) ==
    LET At(i) ==
            LET p == i + Len(<<"s", "t", "a", "t", "e">>)
                seps == RunLen(text, p, IsSep)
                ks == {k \in 1..seps : RunLen(text, p + k, IsLetter) >= StateLetters}
            IN  IF HasAt(text, i, <<"s", "t", "a", "t", "e">>) /\ ks # {}
                THEN LET k == CHOOSE x \in ks : \A y \in ks : y <= x
                     IN  Captured(SubSeq(text, p + k, p + k + StateLetters - 1))
                ELSE NoCapture
    IN  Leftmost(1..Len(text), At)

\* The bureau after a line: the three tests of the bureau names, in turn.
BureauAfter(line, currentBureau) ==
    IF Test(line, <<"t", "r", "a", "n", "s", "u", "n", "i", "o", "n">>) \/ Test(line, <<"t", "u">>) THEN "TU"
    ELSE IF Test(line, <<"e", "q", "u", "i", "f", "a", "x">>) \/ Test(line, <<"e", "q">>) THEN "EQ"
    ELSE IF Test(line, <<"e", "x", "p", "e", "r", "i", "a", "n">>) \/ Test(line, <<"e", "x">>) THEN "EX"
    ELSE currentBureau

\* /Account|Creditor/i.test(line) && /Name|Number/i.test(line)
DetectsNewAccount(line) ==
    /\ Test(line, <<"a", "c", "c", "o", "u", "n", "t">>) \/ Test(line, <<"c", "r", "e", "d", "i", "t", "o", "r">>)
    /\ Test(line, <<"n", "a", "m", "e">>) \/ Test(line, <<"n", "u", "m", "b", "e", "r">>)

\* The labels of the fields the model leaves at their initial value: no line
\* of a modelled text holds one of them.
OtherLabels ==
    {<<"o", "p", "e", "n", "e", "d">>, <<"d", "a", "t", "e">>, <<"b", "a", "l", "a", "n", "c", "e">>, <<"a", "m", "o", "u", "n", "t">>, <<"l", "i", "m", "i", "t">>, <<"h", "i", "g", "h">>, <<"a", "c", "t", "i", "v", "i", "t", "y">>,
     <<"d", "l", "a">>, <<"p", "a", "y", "m", "e", "n", "t">>, <<"d", "e", "l", "i", "n", "q">>, <<"d", "o", "f", "d">>, <<"i", "n", "q", "u", "i", "r", "y">>, <<"i", "n", "q", "u", "i", "r", "e", "r">>}

NoOtherField(line) == \A w \in OtherLabels : ~Test(line, w)

\* currentAccount = { bureau: currentBureau, creditorName: '', ... }
NewAccount(currentBureau) ==
    [bureau |-> currentBureau, creditorName |-> <<>>, accountNumberPartial |-> <<>>,
     accountType |-> <<>>, openDate |-> "null", currentBalance |-> Num(0),
     creditLimit |-> Null, status |-> <<>>, dateOfLastActivity |-> "null",
     lastPaymentDate |-> "null", dateOfFirstDelinquency |-> "null",
     originalCreditor |-> <<>>, collectorName |-> <<>>]

NoAccount == [bureau |-> "none"]

\* /Collection|Debt/i.test(str)
CollectionOrDebt(str) == Test(str, <<"c", "o", "l", "l", "e", "c", "t", "i", "o", "n">>) \/ Test(str, <<"d", "e", "b", "t">>)

\* The flush of the finished account by a following header: the test of the
\* status and of the creditor name.
FlushAtHeader(st) ==
    IF st.cur # NoAccount /\ st.cur.creditorName # <<>>
    THEN IF CollectionOrDebt(st.cur.status) \/ CollectionOrDebt(st.cur.creditorName)
         THEN [st EXCEPT !.collections = Append(@, st.cur)]
         ELSE [st EXCEPT !.tradelines = Append(@, st.cur)]
    ELSE st

\* The push of the last account: the test of the status alone.
FlushAtEnd(st) ==
    IF st.cur # NoAccount /\ st.cur.creditorName # <<>>
    THEN IF CollectionOrDebt(st.cur.status)
         THEN [st EXCEPT !.collections = Append(@, st.cur)]
         ELSE [st EXCEPT !.tradelines = Append(@, st.cur)]
    ELSE st

\* The fields a line gives to the current account.
WithFields(acc, line) ==
    LET cred == credMatch(line)
        acct == acctMatch(line)
        stat == statMatch(line)
        oc == ocMatch(line)
    IN  [acc EXCEPT
            !.creditorName = IF cred.ok /\ acc.creditorName = <<>> THEN Trim(cred.text) ELSE @,
            !.accountNumberPartial =
                IF acct.ok THEN SliceLast(SelectSeq(acct.text, NotMask), 4) ELSE @,
            !.status = IF stat.ok THEN Trim(stat.text) ELSE @,
            !.originalCreditor = IF oc.ok THEN Trim(oc.text) ELSE @]

\* The body of the loop over the lines, for one (trimmed) line.
LibLine(st, line) ==
    LET bureau == BureauAfter(line, st.bureau)
        opened == IF DetectsNewAccount(line)
                  THEN [FlushAtHeader(st) EXCEPT !.cur = NewAccount(bureau)]
                  ELSE st
    IN  [opened EXCEPT !.bureau = bureau,
                       !.cur = IF opened.cur # NoAccount THEN WithFields(opened.cur, line) ELSE @]

RECURSIVE LibLines(_, _)
LibLines(st, lines) ==
    IF lines = <<>> THEN st ELSE LibLines(LibLine(st, Trim(Head(lines))), Tail(lines))

\* parseCreditReportText(rawText) of src/lib/parseCreditReport.js
libParseCreditReportText(lines) ==
    LET client == [name |-> IF clientMatch(JoinText(lines)).ok
                            THEN Trim(clientMatch(JoinText(lines)).text)
                            ELSE <<"U", "n", "k", "n", "o", "w", "n", " ", "C", "l", "i", "e", "n", "t">>,
                   state |-> IF stateMatch(JoinText(lines)).ok
                             THEN stateMatch(JoinText(lines)).text ELSE <<"X", "X">>]
        end == FlushAtEnd(LibLines([cur |-> NoAccount, bureau |-> "EX",
                                    tradelines |-> <<>>, collections |-> <<>>], lines))
    IN  [client |-> client, tradelines |-> end.tradelines,
         collections |-> end.collections, inquiries |-> <<>>]

(***************************************************************************)
(* Texts of one or two accounts.                                           *)
(***************************************************************************)
LibNames == {<<"C", "H", "A", "S", "E", " ", "B", "A", "N", "K">>, <<"A", "B", "C", " ", "C", "o", "l", "l", "e", "c", "t", "i", "o", "n", " ", "S", "e", "r", "v", "i", "c", "e", "s">>, <<"M", "i", "d", "w", "e", "s", "t", " ", "D", "e", "b", "t", " ", "R", "e", "c", "o", "v", "e", "r", "y">>}
LibStatuses == {<<"O", "p", "e", "n">>, <<"C", "o", "l", "l", "e", "c", "t", "i", "o", "n">>, <<"C", "h", "a", "r", "g", "e", "d", " ", "o", "f", "f", " ", "a", "s", " ", "b", "a", "d", " ", "d", "e", "b", "t">>}

LibBlocks ==
    {<<<<"C", "r", "e", "d", "i", "t", "o", "r", " ", "N", "a", "m", "e", ":", " ">> \o n>> \o s : n \in LibNames,
        s \in {<<>>} \cup {<<<<"S", "t", "a", "t", "u", "s", ":", " ">> \o x>> : x \in LibStatuses}}
    \cup {<<<<"A", "c", "c", "o", "u", "n", "t", " ", "N", "u", "m", "b", "e", "r", " ", "1", "2", "3", "4">>, <<" ", " ", "C", "o", "m", "p", "a", "n", "y", ":", " ">> \o n, <<"A", "c", "c", "o", "u", "n", "t", " ", "#", ":", " ", "X", "X", "X", "X", "5", "6", "7", "8">>>> \o s :
            n \in LibNames, s \in {<<>>} \cup {<<<<"S", "t", "a", "t", "u", "s", ":", " ">> \o x>> : x \in LibStatuses}}

LibTexts ==
    LibBlocks \cup {a \o b : a \in LibBlocks, b \in LibBlocks}
        \cup {<<<<"n", "o", " ", "a", "c", "c", "o", "u", "n", "t", "s">>>>, <<<<"S", "t", "a", "t", "e", ":", " ", "N", "Y">>, <<"A", "c", "c", "o", "u", "n", "t", " ", "N", "a", "m", "e">>>>}

LibraryInit ==
    /\ rawText \in {t \in LibTexts : \A i \in 1..Len(t) : NoOtherField(t[i])}
    /\ variant = "lib"
    /\ data = NoBundle
    /\ pc = "parse"
    /\ today = Midnight
    /\ groups = <<>>
    /\ g = 1
    /\ c = 1
    /\ q = 1
    /\ findings = <<>>
    /\ findingId = 1

\* src/lib/parseCreditReport.js: parseCreditReportText(rawText)
ParseLibrary ==
    /\ pc = "parse"
    /\ data' = libParseCreditReportText(rawText)
    /\ pc' = "parsed"
    /\ UNCHANGED <<rawText, variant, today, groups, g, c, q, findings, findingId>>

LibraryNext == ParseLibrary

Library == LibraryInit /\ [][LibraryNext]_vars

\* C30: an account is in collections exactly when its own status or its own
\* creditor name matches Collection|Debt, whether it was flushed by a
\* following account header or is the last account of the text.
C30_ClassifiedByStatusAndName ==
    pc = "parsed" =>
        /\ \A i \in 1..Len(data.collections) :
               CollectionOrDebt(data.collections[i].status)
                   \/ CollectionOrDebt(data.collections[i].creditorName)
        /\ \A i \in 1..Len(data.tradelines) :
               /\ ~CollectionOrDebt(data.tradelines[i].status)
               /\ ~CollectionOrDebt(data.tradelines[i].creditorName)


(***************************************************************************)
(* The audits on disk: two POST /api/audit requests, each suspended at its *)
(* awaits, and GET /api/download requests, which share the directory       *)
(* /tmp/audits.  The ids of the two audits are distinct.  Under this       *)
(* specification pc holds the position of each POST request and data its   *)
(* response, groups the directory and the file audit.json of each audit    *)
(* id, q the download in progress and c the last download answered.        *)
(***************************************************************************)
auditDirs == groups
download == q
downloaded == c

NoResponse == [status |-> 0]
NoDownload == [id |-> 0]

\* /tmp/audits/<auditId>: the directory and the state of audit.json in it
NoAuditDir == [dir |-> FALSE, file |-> "none", auditData |-> 0]

AuditsInit ==
    /\ pc = [p \in Runs |-> "start"]
    /\ data = [p \in Runs |-> NoResponse]
    /\ auditDirs = [id \in Runs |-> NoAuditDir]
    /\ download = NoDownload
    /\ downloaded = NoDownload
    /\ rawText = [p \in Runs |-> p]
    /\ variant = "route"
    /\ today = Midnight
    /\ g = 1
    /\ findings = <<>>
    /\ findingId = 1

\* POST: the upload is read and audited; var auditId = generateId()
\* (an exception before the write ends the request with status 500)
PostAudit(p) ==
    /\ pc[p] = "start"
    /\ \E thrown \in BOOLEAN :
           IF thrown
           THEN pc' = [pc EXCEPT ![p] = "failed"]
                /\ data' = [data EXCEPT ![p] = [status |-> 500]]
           ELSE pc' = [pc EXCEPT ![p] = "mkdir"] /\ UNCHANGED data
    /\ UNCHANGED <<rawText, variant, today, groups, g, c, q, findings, findingId>>

\* POST: await mkdir(auditDir, { recursive: true }) in try / catch: a failure
\* is swallowed
PostMkdir(p) ==
    /\ pc[p] = "mkdir"
    /\ \E made \in BOOLEAN : auditDirs' = [auditDirs EXCEPT ![p].dir = made]
    /\ pc' = [pc EXCEPT ![p] = "write"]
    /\ UNCHANGED <<rawText, variant, data, today, g, c, q, findings, findingId>>

\* POST: writeFile(path.join(auditDir, 'audit.json'), ...) begins to write
PostWriteBegins(p) ==
    /\ pc[p] = "write"
    /\ auditDirs[p].dir
    /\ auditDirs' = [auditDirs EXCEPT ![p].file = "partial"]
    /\ pc' = [pc EXCEPT ![p] = "writing"]
    /\ UNCHANGED <<rawText, variant, data, today, g, c, q, findings, findingId>>

\* POST: writeFile has written the whole of JSON.stringify(auditData)
PostWriteEnds(p) ==
    /\ pc[p] = "writing"
    /\ auditDirs' = [auditDirs EXCEPT ![p].file = "complete", ![p].auditData = rawText[p]]
    /\ pc' = [pc EXCEPT ![p] = "written"]
    /\ UNCHANGED <<rawText, variant, data, today, g, c, q, findings, findingId>>

\* POST: the promise of writeFile is rejected (no directory, or an error
\* while writing): the catch block answers with status 500
PostWriteFails(p) ==
    /\ pc[p] \in {"write", "writing"}
    /\ pc' = [pc EXCEPT ![p] = "failed"]
    /\ data' = [data EXCEPT ![p] = [status |-> 500]]
    /\ UNCHANGED <<rawText, variant, today, groups, g, c, q, findings, findingId>>

\* Variation of Fulfilled: the response does not wait for the end of the
\* write.
Begun(position) == position \in {"writing", "written"}

\* await writeFile(...): the handler goes on when the promise is fulfilled
Fulfilled(position) == position = "written"

\* POST: return NextResponse.json({ auditId: auditId, ... })
PostReturns(p) ==
    /\ Fulfilled(pc[p])
    /\ pc[p] # "returned"
    /\ data[p] = NoResponse
    /\ data' = [data EXCEPT ![p] = [status |-> 200, auditId |-> p]]
    /\ pc' = [pc EXCEPT ![p] = IF pc[p] = "written" THEN "returned" ELSE @]
    /\ UNCHANGED <<rawText, variant, today, groups, g, c, q, findings, findingId>>

\* GET: existsSync(auditDir), status 404 when the directory is missing
DownloadStarts ==
    /\ download = NoDownload
    /\ \E id \in Runs :
           LET known == data[id].status = 200 IN
           IF auditDirs[id].dir
           THEN download' = [id |-> id, known |-> known] /\ UNCHANGED c
           ELSE downloaded' = [id |-> id, known |-> known, status |-> 404]
                /\ UNCHANGED q
    /\ UNCHANGED <<rawText, variant, data, today, pc, groups, g, findings, findingId>>

\* GET: JSON.parse(await readFile(path.join(auditDir, 'audit.json'), 'utf8')),
\* status 500 when the file is missing or is not whole, else the document
DownloadReads ==
    /\ download # NoDownload
    /\ downloaded' =
           [id |-> download.id, known |-> download.known,
            status |-> IF auditDirs[download.id].file = "complete" THEN 200 ELSE 500]
    /\ download' = NoDownload
    /\ UNCHANGED <<rawText, variant, data, today, pc, groups, g, findings, findingId>>

AuditsNext ==
    \/ \E p \in Runs :
           \/ PostAudit(p)
           \/ PostMkdir(p)
           \/ PostWriteBegins(p)
           \/ PostWriteEnds(p)
           \/ PostWriteFails(p)
           \/ PostReturns(p)
    \/ DownloadStarts
    \/ DownloadReads

Audits == AuditsInit /\ [][AuditsNext]_vars

\* The request has answered with an audit id.
ReturnedId(p) == data[p].status = 200

\* C28: when POST /api/audit has returned an auditId, audit.json of that
\* id is written whole, with the data of that run; a download of the id
\* that begins afterwards is answered with the document, not with 404 or
\* 500, whatever the other requests do; and a request whose write failed
\* returns no auditId.
C28_ReturnedAuditIsStored ==
    /\ \A p \in Runs :
           ReturnedId(p) =>
               /\ data[p].auditId = p
               /\ auditDirs[p] = [dir |-> TRUE, file |-> "complete", auditData |-> rawText[p]]
    /\ \A p \in Runs : pc[p] = "failed" => ~ReturnedId(p)
    /\ downloaded # NoDownload /\ downloaded.known => downloaded.status = 200

\* A download of a returned audit was answered while the other request had
\* failed or was still writing.
C28_Witness ==
    /\ downloaded # NoDownload
    /\ downloaded.known
    /\ downloaded.status = 200
    /\ \E p \in Runs : p # downloaded.id /\ pc[p] \in {"writing", "failed"}

====
